---- MODULE Spec2Model ----
(***************************************************************************)
(* Model of the ETL core of the Construction Hub data-analytics service:   *)
(*   services/etl_service.py   ETLService (job orchestrator, warehouse)    *)
(*   utils/data_validator.py   DataValidator (data-quality gate)           *)
(*   utils/data_transformer.py DataTransformer (normalisation)             *)
(*   models/database.py        ETLJob, DataSource, AnalyticsMetric rows    *)
(***************************************************************************)
EXTENDS Integers, Sequences, FiniteSets, TLC

(***************************************************************************)
(* JSON values as Python sees them after response.json().  Every value has *)
(* the same three fields so that values of different kinds can be compared.*)
(*   null      None                                                        *)
(*   str       a str that is neither a number nor a date (s is its text)   *)
(*   num       an int or float (n is its value)                            *)
(*   numstr    a str that float() parses (n is the parsed value)           *)
(*   date      a str holding day number n written in strptime format s     *)
(***************************************************************************)
Null == [k |-> "null", s |-> "", n |-> 0]
Str(text) == [k |-> "str", s |-> text, n |-> 0]
Num(x) == [k |-> "num", s |-> "", n |-> x]
NumStr(x) == [k |-> "numstr", s |-> "", n |-> x]
DateStr(fmt, day) == [k |-> "date", s |-> fmt, n |-> day]

\* One element of a payload: a JSON object (a dict, f maps its keys to values)
\* or a JSON number, boolean or null standing where an object was expected.
Dict(f) == [t |-> "dict", f |-> f]
NonDict(v) == [t |-> "other", f |-> [value |-> v]]

\* The day datetime.now() falls on; now is some time after midnight of it.
Today == 100

\* Python truthiness of a value: None, '', 0 and 0.0 are falsy.
Truthy(v) ==
    CASE v.k = "null" -> FALSE
      [] v.k = "str" -> v.s # ""
      [] v.k = "num" -> v.n # 0
      [] OTHER -> TRUE

\* float(v) returns (num, numstr); otherwise it raises ValueError (a str) or
\* TypeError (None).
FloatOk(v) == v.k \in {"num", "numstr"}
FloatRaises(v) == IF FloatOk(v) THEN "none" ELSE IF v.k = "null" THEN "TypeError" ELSE "ValueError"

\* datetime.strptime(v, fmt): "ok", or the exception it raises.
Strptime(v, fmt) ==
    CASE v.k \in {"null", "num"} -> "TypeError"
      [] v.k = "date" /\ v.s = fmt -> "ok"
      [] OTHER -> "ValueError"

\* Concatenation of a sequence of sequences, in order.
RECURSIVE Flatten(_)
Flatten(ss) == IF ss = <<>> THEN <<>> ELSE Head(ss) \o Flatten(Tail(ss))

\* Sum of a sequence of numbers.
RECURSIVE SumSeq(_)
SumSeq(ns) == IF ns = <<>> THEN 0 ELSE Head(ns) + SumSeq(Tail(ns))

(***************************************************************************)
(* DataValidator                                                           *)
(***************************************************************************)
date_formats ==
    <<"%Y-%m-%d", "%Y-%m-%d %H:%M:%S", "%Y-%m-%dT%H:%M:%S",
      "%Y-%m-%dT%H:%M:%S.%f", "%d/%m/%Y", "%m/%d/%Y">>

validation_rules ==
    [s \in {"accounts-payable", "accounts-receivable", "cash-flow", "project-management"} |->
       CASE s = "accounts-payable" ->
              [required_fields |-> <<"id", "amount", "due_date", "supplier_id">>,
               field_types |-> <<<<"id", "string">>, <<"amount", "numeric">>,
                                 <<"due_date", "date">>, <<"supplier_id", "string">>,
                                 <<"status", "string">>>>,
               field_ranges |-> <<[field |-> "amount", min |-> 0, max |-> 10000000]>>,
               field_patterns |-> <<[field |-> "status",
                                     allowed |-> {"pending", "approved", "paid", "cancelled"}]>>]
         [] s = "accounts-receivable" ->
              [required_fields |-> <<"id", "amount", "customer_id">>,
               field_types |-> <<<<"id", "string">>, <<"amount", "numeric">>,
                                 <<"customer_id", "string">>, <<"payment_date", "date">>,
                                 <<"status", "string">>>>,
               field_ranges |-> <<[field |-> "amount", min |-> 0, max |-> 10000000]>>,
               field_patterns |-> <<[field |-> "status",
                                     allowed |-> {"pending", "partial", "paid", "overdue"}]>>]
         [] s = "cash-flow" ->
              [required_fields |-> <<"id", "date", "type">>,
               field_types |-> <<<<"id", "string">>, <<"date", "date">>,
                                 <<"type", "string">>, <<"amount", "numeric">>>>,
               field_ranges |-> <<>>,
               field_patterns |-> <<[field |-> "type", allowed |-> {"inflow", "outflow"}]>>]
         [] OTHER ->
              [required_fields |-> <<"id", "name", "start_date">>,
               field_types |-> <<<<"id", "string">>, <<"name", "string">>,
                                 <<"start_date", "date">>, <<"end_date", "date">>,
                                 <<"budget", "numeric">>, <<"actual_cost", "numeric">>>>,
               field_ranges |-> <<[field |-> "budget", min |-> 0, max |-> 100000000],
                                  [field |-> "actual_cost", min |-> 0, max |-> 100000000]>>,
               field_patterns |-> <<>>]]

\* An error or warning message: the record's 0-based index, what went wrong,
\* and the field the message names ("" when it names none).
Msg(i, kind, field) == [record_index |-> i, kind |-> kind, field |-> field]

_validate_field_type(value, expected_type) ==
    CASE expected_type = "string" -> TRUE
      [] expected_type = "numeric" -> FloatOk(value)
      [] expected_type = "date" ->
           \E i \in 1..Len(date_formats) : Strptime(value, date_formats[i]) = "ok"
      [] expected_type = "boolean" ->
           \/ (value.k = "str" /\ value.s \in {"true", "false", "True", "False", "TRUE", "FALSE"})
           \/ (value.k \in {"num", "numstr"} /\ value.n \in {0, 1})
      [] OTHER -> TRUE

\* The accounts-payable rules.  A TypeError from strptime is not caught by the
\* inner handler: the outer one turns it into a warning and ends the checks.
BusinessPayable(r, i) ==
    LET dueChecked == "status" \in DOMAIN r /\ r["status"] = Str("pending")
                      /\ "due_date" \in DOMAIN r
        parsed == IF dueChecked THEN Strptime(r["due_date"], "%Y-%m-%d") ELSE "skip"
        pastDue == parsed = "ok" /\ r["due_date"].n <= Today
        dueWarn == IF pastDue THEN <<Msg(i, "past_due_pending", "due_date")>> ELSE <<>>
        amountErr == IF "amount" \in DOMAIN r /\ FloatOk(r["amount"]) /\ r["amount"].n <= 0
                     THEN <<Msg(i, "amount_not_positive", "amount")>> ELSE <<>>
    IN  IF parsed = "TypeError"
        THEN [errors |-> <<>>, warnings |-> <<Msg(i, "business_logic_error", "")>>]
        ELSE [errors |-> amountErr, warnings |-> dueWarn]

BusinessProject(r, i) ==
    LET both == "start_date" \in DOMAIN r /\ "end_date" \in DOMAIN r
        p1 == IF both THEN Strptime(r["start_date"], "%Y-%m-%d") ELSE "skip"
        p2 == IF p1 = "ok" THEN Strptime(r["end_date"], "%Y-%m-%d") ELSE "skip"
        dateErr == IF p1 = "ok" /\ p2 = "ok" /\ r["end_date"].n <= r["start_date"].n
                   THEN <<Msg(i, "end_not_after_start", "end_date")>> ELSE <<>>
        costs == "budget" \in DOMAIN r /\ "actual_cost" \in DOMAIN r
        f1 == IF costs THEN FloatRaises(r["budget"]) ELSE "skip"
        f2 == IF f1 = "none" THEN FloatRaises(r["actual_cost"]) ELSE "skip"
        costWarn == IF f1 = "none" /\ f2 = "none" /\ 2 * r["actual_cost"].n > 3 * r["budget"].n
                    THEN <<Msg(i, "cost_exceeds_budget", "actual_cost")>> ELSE <<>>
    IN  IF p1 = "TypeError" \/ p2 = "TypeError"
        THEN [errors |-> <<>>, warnings |-> <<Msg(i, "business_logic_error", "")>>]
        ELSE [errors |-> dateErr, warnings |-> costWarn]

BusinessCashFlow(r, i) ==
    LET a == r["amount"]
        big == "amount" \in DOMAIN r /\ FloatOk(a) /\ (a.n > 1000000 \/ a.n < -1000000)
    IN  [errors |-> <<>>,
         warnings |-> IF big THEN <<Msg(i, "large_cash_flow", "amount")>> ELSE <<>>]

_validate_business_logic(service_name, r, i) ==
    CASE service_name = "accounts-payable" -> BusinessPayable(r, i)
      [] service_name = "project-management" -> BusinessProject(r, i)
      [] service_name = "cash-flow" -> BusinessCashFlow(r, i)
      [] OTHER -> [errors |-> <<>>, warnings |-> <<>>]

\* Present with a value other than None: the guard of the type, range and
\* pattern checks.
HasValue(r, field) == field \in DOMAIN r /\ r[field] # Null

\* RequiredErrors without the `record[field] == ''` test.
RequiredErrors_EmptyStringAccepted(rules, r, i) ==
    LET fs == rules.required_fields
    IN  Flatten([j \in 1..Len(fs) |->
            IF fs[j] \notin DOMAIN r \/ r[fs[j]] = Null
            THEN <<Msg(i, "missing_required", fs[j])>> ELSE <<>>])

RequiredErrors(rules, r, i) ==
    LET fs == rules.required_fields
    IN  Flatten([j \in 1..Len(fs) |->
            IF fs[j] \notin DOMAIN r \/ r[fs[j]] = Null \/ r[fs[j]] = Str("")
            THEN <<Msg(i, "missing_required", fs[j])>> ELSE <<>>])

TypeErrors(rules, r, i) ==
    LET ts == rules.field_types
    IN  Flatten([j \in 1..Len(ts) |->
            IF HasValue(r, ts[j][1]) /\ ~_validate_field_type(r[ts[j][1]], ts[j][2])
            THEN <<Msg(i, "invalid_type", ts[j][1])>> ELSE <<>>])

RangeErrors(rules, r, i) ==
    LET rs == rules.field_ranges
    IN  Flatten([j \in 1..Len(rs) |->
            IF ~HasValue(r, rs[j].field) THEN <<>>
            ELSE IF ~FloatOk(r[rs[j].field]) THEN <<Msg(i, "not_numeric", rs[j].field)>>
            ELSE (IF r[rs[j].field].n < rs[j].min
                  THEN <<Msg(i, "below_min", rs[j].field)>> ELSE <<>>)
                 \o (IF r[rs[j].field].n > rs[j].max
                     THEN <<Msg(i, "above_max", rs[j].field)>> ELSE <<>>)])

\* PatternErrors with a mismatch left to the warnings: no error is appended.
PatternErrors_WarnOnly(rules, r, i) == <<>>

\* re.match(pattern, str(value)): the patterns are alternations of literals,
\* and the text of a number or of a date is none of them.
PatternErrors(rules, r, i) ==
    LET ps == rules.field_patterns
    IN  Flatten([j \in 1..Len(ps) |->
            IF HasValue(r, ps[j].field)
               /\ ~(r[ps[j].field].k = "str" /\ r[ps[j].field].s \in ps[j].allowed)
            THEN <<Msg(i, "pattern_mismatch", ps[j].field)>> ELSE <<>>])

\* raised: `field not in record` on a number, boolean or None raises TypeError.
_validate_record(service_name, item, i) ==
    IF service_name \notin DOMAIN validation_rules
    THEN [raised |-> FALSE, is_valid |-> TRUE, errors |-> <<>>,
          warnings |-> <<Msg(i, "no_rules", "")>>]
    ELSE IF item.t # "dict"
    THEN [raised |-> TRUE, is_valid |-> FALSE, errors |-> <<>>, warnings |-> <<>>]
    ELSE LET rules == validation_rules[service_name]
             r == item.f
             own == RequiredErrors(rules, r, i) \o TypeErrors(rules, r, i)
                    \o RangeErrors(rules, r, i) \o PatternErrors(rules, r, i)
             business == _validate_business_logic(service_name, r, i)
         IN  [raised |-> FALSE,
              is_valid |-> own = <<>> /\ business.errors = <<>>,
              errors |-> own \o business.errors,
              warnings |-> business.warnings]

(***************************************************************************)
(* A payload (response.json()): shape is                                   *)
(*   "list"          a JSON array, items its elements                      *)
(*   "dict"          a JSON object without a "data" key, items = <<it>>    *)
(*   "wrapper_list"  {"data": [...]}, items the elements of the list       *)
(*   "wrapper_one"   {"data": x} with x not a list, items = <<x>>          *)
(*   "scalar"        a JSON string, number, boolean or null                *)
(* falsy is Python's `not data`.                                           *)
(***************************************************************************)
Payload(shape, items, falsy) == [shape |-> shape, items |-> items, falsy |-> falsy]

\* The record list both engines build from a payload (the payload is truthy
\* and not a scalar).
RecordsOf(data) == data.items

\* validate_microservice_data with `failure_rate >= 0.1` for `> 0.1`.
validate_microservice_data_RejectsAtTenPercent(service_name, data) ==
    IF data.falsy
    THEN [is_valid |-> FALSE, errors |-> <<Msg(-1, "no_data", "")>>, warnings |-> <<>>,
          records_validated |-> 0, records_failed |-> 0]
    ELSE IF data.shape = "scalar"
    THEN [is_valid |-> FALSE, errors |-> <<Msg(-1, "invalid_format", "")>>, warnings |-> <<>>,
          records_validated |-> 0, records_failed |-> 0]
    ELSE LET records == RecordsOf(data)
             rv == [j \in 1..Len(records) |-> _validate_record(service_name, records[j], j - 1)]
             failed == Cardinality({j \in 1..Len(records) : ~rv[j].is_valid})
         IN  IF \E j \in 1..Len(records) : rv[j].raised
             THEN [is_valid |-> FALSE, errors |-> <<Msg(-1, "validation_error", "")>>,
                   warnings |-> <<>>, records_validated |-> 0, records_failed |-> 0]
             ELSE [is_valid |-> ~(failed > 0 /\ 10 * failed >= Len(records)),
                   errors |-> Flatten([j \in 1..Len(records) |->
                                 IF rv[j].is_valid THEN <<>> ELSE rv[j].errors]),
                   warnings |-> Flatten([j \in 1..Len(records) |-> rv[j].warnings]),
                   records_validated |-> Len(records),
                   records_failed |-> failed]

\* validate_microservice_data without its `if not data` test on lists and dicts.
validate_microservice_data_NoEmptyCheck(service_name, data) ==
    IF data.falsy /\ data.shape = "scalar"
    THEN [is_valid |-> FALSE, errors |-> <<Msg(-1, "no_data", "")>>, warnings |-> <<>>,
          records_validated |-> 0, records_failed |-> 0]
    ELSE IF data.shape = "scalar"
    THEN [is_valid |-> FALSE, errors |-> <<Msg(-1, "invalid_format", "")>>, warnings |-> <<>>,
          records_validated |-> 0, records_failed |-> 0]
    ELSE LET records == RecordsOf(data)
             rv == [j \in 1..Len(records) |-> _validate_record(service_name, records[j], j - 1)]
             failed == Cardinality({j \in 1..Len(records) : ~rv[j].is_valid})
         IN  IF \E j \in 1..Len(records) : rv[j].raised
             THEN [is_valid |-> FALSE, errors |-> <<Msg(-1, "validation_error", "")>>,
                   warnings |-> <<>>, records_validated |-> 0, records_failed |-> 0]
             ELSE [is_valid |-> ~(failed > 0 /\ 10 * failed > Len(records)),
                   errors |-> Flatten([j \in 1..Len(records) |->
                                 IF rv[j].is_valid THEN <<>> ELSE rv[j].errors]),
                   warnings |-> Flatten([j \in 1..Len(records) |-> rv[j].warnings]),
                   records_validated |-> Len(records),
                   records_failed |-> failed]

\* validate_microservice_data rejecting the payload on its first failed record.
validate_microservice_data_AnyFailureRejects(service_name, data) ==
    IF data.falsy
    THEN [is_valid |-> FALSE, errors |-> <<Msg(-1, "no_data", "")>>, warnings |-> <<>>,
          records_validated |-> 0, records_failed |-> 0]
    ELSE IF data.shape = "scalar"
    THEN [is_valid |-> FALSE, errors |-> <<Msg(-1, "invalid_format", "")>>, warnings |-> <<>>,
          records_validated |-> 0, records_failed |-> 0]
    ELSE LET records == RecordsOf(data)
             rv == [j \in 1..Len(records) |-> _validate_record(service_name, records[j], j - 1)]
             failed == Cardinality({j \in 1..Len(records) : ~rv[j].is_valid})
         IN  IF \E j \in 1..Len(records) : rv[j].raised
             THEN [is_valid |-> FALSE, errors |-> <<Msg(-1, "validation_error", "")>>,
                   warnings |-> <<>>, records_validated |-> 0, records_failed |-> 0]
             ELSE [is_valid |-> failed = 0,
                   errors |-> Flatten([j \in 1..Len(records) |->
                                 IF rv[j].is_valid THEN <<>> ELSE rv[j].errors]),
                   warnings |-> Flatten([j \in 1..Len(records) |-> rv[j].warnings]),
                   records_validated |-> Len(records),
                   records_failed |-> failed]

validate_microservice_data(service_name, data) ==
    IF data.falsy
    THEN [is_valid |-> FALSE, errors |-> <<Msg(-1, "no_data", "")>>, warnings |-> <<>>,
          records_validated |-> 0, records_failed |-> 0]
    ELSE IF data.shape = "scalar"
    THEN [is_valid |-> FALSE, errors |-> <<Msg(-1, "invalid_format", "")>>, warnings |-> <<>>,
          records_validated |-> 0, records_failed |-> 0]
    ELSE LET records == RecordsOf(data)
             rv == [j \in 1..Len(records) |-> _validate_record(service_name, records[j], j - 1)]
             failed == Cardinality({j \in 1..Len(records) : ~rv[j].is_valid})
         IN  IF \E j \in 1..Len(records) : rv[j].raised
             THEN [is_valid |-> FALSE, errors |-> <<Msg(-1, "validation_error", "")>>,
                   warnings |-> <<>>, records_validated |-> 0, records_failed |-> 0]
             ELSE [is_valid |-> ~(failed > 0 /\ 10 * failed > Len(records)),
                   errors |-> Flatten([j \in 1..Len(records) |->
                                 IF rv[j].is_valid THEN <<>> ELSE rv[j].errors]),
                   warnings |-> Flatten([j \in 1..Len(records) |-> rv[j].warnings]),
                   records_validated |-> Len(records),
                   records_failed |-> failed]

(***************************************************************************)
(* DataTransformer                                                         *)
(***************************************************************************)
\* A float with three decimals, held as its value times 1000.
Milli(m) == [k |-> "milli", s |-> "", n |-> m]

\* str.lower() on the status and type texts the rules compare.
Lower(text) ==
    CASE text \in {"Overdue", "OVERDUE"} -> "overdue"
      [] text \in {"Pending", "PENDING"} -> "pending"
      [] text \in {"Paid", "PAID"} -> "paid"
      [] text \in {"Partial", "PARTIAL"} -> "partial"
      [] text \in {"Inflow", "INFLOW"} -> "inflow"
      [] text \in {"Outflow", "OUTFLOW"} -> "outflow"
      [] OTHER -> text

\* The text of a str value, whatever it holds ("" for numbers and dates in
\* text form, which equal none of the compared literals).
IsStr(v) == v.k \in {"str", "numstr", "date"}
TextOf(v) == IF v.k = "str" THEN v.s ELSE ""

\* round(num / den, 2) as a value times 1000, ties to even; den > 0.
Round2(num, den) ==
    LET q == (100 * num) \div den
        r == (100 * num) % den
        up == 2 * r > den \/ (2 * r = den /\ q % 2 = 1)
    IN  10 * (IF up THEN q + 1 ELSE q)

field_mappings ==
    [s \in {"accounts-payable", "accounts-receivable", "cash-flow", "project-management"} |->
       CASE s = "accounts-payable" ->
              <<<<"id", "payable_id">>, <<"amount", "payable_amount">>,
                <<"due_date", "payable_due_date">>, <<"supplier_id", "supplier_id">>,
                <<"status", "payable_status">>>>
         [] s = "accounts-receivable" ->
              <<<<"id", "receivable_id">>, <<"amount", "receivable_amount">>,
                <<"customer_id", "customer_id">>, <<"payment_date", "expected_payment_date">>,
                <<"status", "receivable_status">>>>
         [] s = "cash-flow" ->
              <<<<"id", "cashflow_id">>, <<"date", "transaction_date">>,
                <<"type", "flow_type">>, <<"amount", "flow_amount">>>>
         [] OTHER ->
              <<<<"id", "project_id">>, <<"name", "project_name">>,
                <<"start_date", "project_start_date">>, <<"end_date", "project_end_date">>,
                <<"budget", "project_budget">>, <<"actual_cost", "project_actual_cost">>>>]

calculated_fields ==
    [s \in {"accounts-payable", "accounts-receivable", "cash-flow", "project-management"} |->
       CASE s = "accounts-payable" -> <<"days_until_due", "amount_cad", "risk_score">>
         [] s = "accounts-receivable" -> <<"days_overdue", "amount_cad", "collection_probability">>
         [] s = "cash-flow" -> <<"cumulative_balance", "monthly_total", "trend_indicator">>
         [] OTHER -> <<"budget_variance", "project_duration", "completion_percentage",
                       "cost_per_day">>]

_calculate_days_until_due(r) ==
    IF "due_date" \notin DOMAIN r \/ ~Truthy(r["due_date"]) THEN Null
    ELSE IF Strptime(r["due_date"], "%Y-%m-%d") # "ok" THEN Null
    ELSE Num(r["due_date"].n - Today - 1)

_calculate_days_overdue(r) ==
    IF "payment_date" \notin DOMAIN r \/ ~Truthy(r["payment_date"]) THEN Null
    ELSE IF Strptime(r["payment_date"], "%Y-%m-%d") # "ok" THEN Null
    ELSE IF r["payment_date"].n <= Today THEN Num(Today - r["payment_date"].n)
    ELSE Num(0)

_convert_to_cad(r) ==
    IF "amount" \in DOMAIN r /\ r["amount"] # Null /\ FloatOk(r["amount"])
    THEN Num(r["amount"].n) ELSE Null

\* The amount step of both scores: "skip", "raise" or the amount.
AmountStep(r) ==
    IF "amount" \notin DOMAIN r \/ ~Truthy(r["amount"]) THEN "skip"
    ELSE IF FloatOk(r["amount"]) THEN "ok" ELSE "raise"

\* The date step of both scores: ValueError is passed over, TypeError escapes.
DateStep(r, field) ==
    IF field \notin DOMAIN r \/ ~Truthy(r[field]) THEN "skip"
    ELSE Strptime(r[field], "%Y-%m-%d")

\* record['status'].lower() raises AttributeError on None and on numbers.
StatusStep(r) ==
    IF "status" \notin DOMAIN r THEN "skip"
    ELSE IF IsStr(r["status"]) THEN "ok" ELSE "raise"

\* _calculate_payable_risk_score with max(risk_score, 1.0) for min(risk_score, 1.0).
_calculate_payable_risk_score_CapIsFloor(r) ==
    LET amount == r["amount"].n
        days == r["due_date"].n - Today - 1
        status == Lower(TextOf(r["status"]))
        a == IF AmountStep(r) # "ok" THEN 0
             ELSE IF amount > 100000 THEN 300
             ELSE IF amount > 50000 THEN 200
             ELSE IF amount > 10000 THEN 100 ELSE 0
        d == IF DateStep(r, "due_date") # "ok" THEN 0
             ELSE IF days < 0 THEN 400
             ELSE IF days < 7 THEN 200
             ELSE IF days < 30 THEN 100 ELSE 0
        st == IF StatusStep(r) # "ok" THEN 0
              ELSE IF status = "overdue" THEN 300
              ELSE IF status = "pending" THEN 100 ELSE 0
    IN  IF AmountStep(r) = "raise" \/ DateStep(r, "due_date") = "TypeError"
           \/ StatusStep(r) = "raise"
        THEN Null
        ELSE Milli(IF a + d + st > 1000 THEN a + d + st ELSE 1000)

_calculate_payable_risk_score(r) ==
    LET amount == r["amount"].n
        days == r["due_date"].n - Today - 1
        status == Lower(TextOf(r["status"]))
        a == IF AmountStep(r) # "ok" THEN 0
             ELSE IF amount > 100000 THEN 300
             ELSE IF amount > 50000 THEN 200
             ELSE IF amount > 10000 THEN 100 ELSE 0
        d == IF DateStep(r, "due_date") # "ok" THEN 0
             ELSE IF days < 0 THEN 400
             ELSE IF days < 7 THEN 200
             ELSE IF days < 30 THEN 100 ELSE 0
        st == IF StatusStep(r) # "ok" THEN 0
              ELSE IF status = "overdue" THEN 300
              ELSE IF status = "pending" THEN 100 ELSE 0
    IN  IF AmountStep(r) = "raise" \/ DateStep(r, "due_date") = "TypeError"
           \/ StatusStep(r) = "raise"
        THEN Null
        ELSE Milli(IF a + d + st < 1000 THEN a + d + st ELSE 1000)

_calculate_collection_probability(r) ==
    LET amount == r["amount"].n
        days == Today - r["payment_date"].n
        status == Lower(TextOf(r["status"]))
        \* factors in tenths
        d == IF DateStep(r, "payment_date") # "ok" THEN 10
             ELSE IF days > 90 THEN 3
             ELSE IF days > 60 THEN 5
             ELSE IF days > 30 THEN 7
             ELSE IF days > 0 THEN 9 ELSE 10
        a == IF AmountStep(r) # "ok" THEN 10
             ELSE IF amount > 100000 THEN 9
             ELSE IF amount > 500000 THEN 8 ELSE 10
        p == d * a
        final == IF StatusStep(r) # "ok" THEN 10 * p
                 ELSE IF status = "paid" THEN 1000
                 ELSE IF status = "overdue" THEN 6 * p
                 ELSE IF status = "partial" THEN 8 * p ELSE 10 * p
    IN  IF AmountStep(r) = "raise" \/ DateStep(r, "payment_date") = "TypeError"
           \/ StatusStep(r) = "raise"
        THEN Null
        ELSE Milli(IF final > 0 THEN final ELSE 0)

_calculate_cumulative_balance(r) ==
    IF "amount" \in DOMAIN r /\ Truthy(r["amount"]) /\ FloatOk(r["amount"])
    THEN Num(r["amount"].n) ELSE Null

_calculate_monthly_total(r) ==
    IF "amount" \in DOMAIN r /\ Truthy(r["amount"]) /\ FloatOk(r["amount"])
    THEN Num(r["amount"].n) ELSE Null

_calculate_trend_indicator(r) ==
    IF "type" \notin DOMAIN r \/ "amount" \notin DOMAIN r THEN Null
    ELSE IF ~IsStr(r["type"]) \/ ~FloatOk(r["amount"]) THEN Null
    ELSE IF Lower(TextOf(r["type"])) = "inflow" /\ r["amount"].n > 0 THEN Str("positive")
    ELSE IF Lower(TextOf(r["type"])) = "outflow" /\ r["amount"].n > 0 THEN Str("negative")
    ELSE Str("neutral")

_calculate_budget_variance(r) ==
    IF "budget" \notin DOMAIN r \/ "actual_cost" \notin DOMAIN r THEN Null
    ELSE IF ~FloatOk(r["budget"]) \/ ~FloatOk(r["actual_cost"]) THEN Null
    ELSE IF r["budget"].n > 0
         THEN Milli(Round2(100 * (r["actual_cost"].n - r["budget"].n), r["budget"].n))
         ELSE Null

\* Both dates parsed with '%Y-%m-%d'; any exception yields None.
BothDates(r) ==
    /\ "start_date" \in DOMAIN r /\ "end_date" \in DOMAIN r
    /\ Strptime(r["start_date"], "%Y-%m-%d") = "ok"
    /\ Strptime(r["end_date"], "%Y-%m-%d") = "ok"

_calculate_project_duration(r) ==
    IF ~BothDates(r) THEN Null
    ELSE LET duration == r["end_date"].n - r["start_date"].n
         IN  Num(IF duration > 0 THEN duration ELSE 0)

_calculate_completion_percentage(r) ==
    IF ~BothDates(r) THEN Null
    ELSE LET start == r["start_date"].n
             end == r["end_date"].n
         IN  IF Today < start THEN Milli(0)
             ELSE IF Today >= end THEN Milli(100000)
             ELSE Milli(Round2(100 * (Today - start), end - start))

_calculate_cost_per_day(r) ==
    IF "actual_cost" \notin DOMAIN r \/ "start_date" \notin DOMAIN r THEN Null
    ELSE IF ~FloatOk(r["actual_cost"]) \/ Strptime(r["start_date"], "%Y-%m-%d") # "ok" THEN Null
    ELSE IF Today - r["start_date"].n > 0
         THEN Milli(Round2(r["actual_cost"].n, Today - r["start_date"].n))
         ELSE Null

Calculate(field_name, r) ==
    CASE field_name = "days_until_due" -> _calculate_days_until_due(r)
      [] field_name = "days_overdue" -> _calculate_days_overdue(r)
      [] field_name = "amount_cad" -> _convert_to_cad(r)
      [] field_name = "risk_score" -> _calculate_payable_risk_score(r)
      [] field_name = "collection_probability" -> _calculate_collection_probability(r)
      [] field_name = "cumulative_balance" -> _calculate_cumulative_balance(r)
      [] field_name = "monthly_total" -> _calculate_monthly_total(r)
      [] field_name = "trend_indicator" -> _calculate_trend_indicator(r)
      [] field_name = "budget_variance" -> _calculate_budget_variance(r)
      [] field_name = "project_duration" -> _calculate_project_duration(r)
      [] field_name = "completion_percentage" -> _calculate_completion_percentage(r)
      [] OTHER -> _calculate_cost_per_day(r)

\* The values PYTHONHASHSEED takes: hash() of a str is salted with a value
\* the interpreter draws when the process starts.
MaxSeeds == 2
HashSeeds == 1..MaxSeeds

\* str(hash(json.dumps(record, sort_keys=True, default=str))): the record's
\* content, whatever the order of its keys, under the salt of the process.
_calculate_record_hash(r, seed) == [k |-> "hash", s |-> "", n |-> <<seed, r>>]

\* The transformed dict of one dict record; later writes to a key replace
\* earlier ones (mapped, then carried over, then calculated, then metadata).
_transform_record(r, service_name, now, seed) ==
    LET fm == field_mappings[service_name]
        originals == {fm[j][1] : j \in 1..Len(fm)}
        targets == {fm[j][2] : j \in 1..Len(fm)}
        mapped == [nf \in targets |->
                     LET j == CHOOSE j \in 1..Len(fm) : fm[j][2] = nf
                     IN  IF fm[j][1] \in DOMAIN r THEN r[fm[j][1]] ELSE Null]
        carried == [f \in DOMAIN r \ originals |-> r[f]]
        cf == calculated_fields[service_name]
        calculated == [f \in {cf[j] : j \in 1..Len(cf)} |-> Calculate(f, r)]
        metadata == [f \in {"_source_service", "_transformed_at", "_record_hash"} |->
                       CASE f = "_source_service" -> Str(service_name)
                         [] f = "_transformed_at" -> [k |-> "time", s |-> "", n |-> now]
                         [] OTHER -> _calculate_record_hash(r, seed)]
    IN  metadata @@ calculated @@ carried @@ mapped

\* The list the orchestrator stores: dicts as Dict items.  A record that is
\* not a dict makes _transform_record return None, and it is left out.
transform_microservice_data(service_name, data, now, seed) ==
    IF data.falsy \/ data.shape = "scalar" THEN <<>>
    ELSE IF service_name \notin DOMAIN field_mappings THEN RecordsOf(data)
    ELSE LET records == RecordsOf(data)
             dicts == SelectSeq(records, LAMBDA it : it.t = "dict")
         IN  [j \in 1..Len(dicts) |-> Dict(_transform_record(dicts[j].f, service_name, now, seed))]

(***************************************************************************)
(* ETLService: the warehouse                                               *)
(***************************************************************************)
metric_mappings ==
    [s \in {"accounts-payable", "accounts-receivable", "cash-flow", "project-management"} |->
       CASE s = "accounts-payable" ->
              <<<<"amount", "financial", "CAD">>, <<"due_date", "operational", "date">>,
                <<"status", "operational", "status">>>>
         [] s = "accounts-receivable" ->
              <<<<"amount", "financial", "CAD">>, <<"payment_date", "operational", "date">>,
                <<"status", "operational", "status">>>>
         [] s = "cash-flow" ->
              <<<<"inflow", "financial", "CAD">>, <<"outflow", "financial", "CAD">>,
                <<"balance", "financial", "CAD">>>>
         [] OTHER ->
              <<<<"budget", "financial", "CAD">>, <<"actual_cost", "financial", "CAD">>,
                <<"progress", "operational", "percentage">>>>]

\* record.get(key, '')
GetOr(r, key) == IF key \in DOMAIN r THEN r[key] ELSE Str("")

\* The AnalyticsMetric rows one stored record yields: one per mapped field the
\* record holds with a value float() accepts (a number, or a str that is one);
\* a str that is no number raises ValueError and is skipped.
_create_analytics_metrics(service_name, endpoint, item) ==
    IF service_name \notin DOMAIN metric_mappings \/ item.t # "dict" THEN {}
    ELSE LET mm == metric_mappings[service_name]
             r == item.f
             usable(j) == /\ mm[j][1] \in DOMAIN r
                          /\ r[mm[j][1]] # Null
                          /\ r[mm[j][1]].k \notin {"str", "date", "hash", "time"}
         IN  {[metric_name |-> <<service_name, endpoint, mm[j][1]>>,
               metric_category |-> mm[j][2],
               metric_value |-> IF FloatOk(r[mm[j][1]]) THEN Num(r[mm[j][1]].n)
                                ELSE r[mm[j][1]],
               metric_unit |-> mm[j][3],
               dimension_1 |-> GetOr(r, "id"),
               dimension_2 |-> GetOr(r, "company_id"),
               dimension_3 |-> GetOr(r, "project_id")] : j \in {j \in 1..Len(mm) : usable(j)}}

\* The rows _store_in_warehouse leaves committed: _create_analytics_metrics
\* commits once per record, and a commit that raises is caught there, logged
\* and rolled back, which drops that record's rows and nothing else.
\* `failing` holds the positions of the records whose commit raises.
_store_in_warehouse(service_name, endpoint, data, failing) ==
    UNION {_create_analytics_metrics(service_name, endpoint, data[j]) :
              j \in (1..Len(data)) \ failing}

\* The commits of one payload of n records that may raise: none, or all of
\* them (the database is away while the payload is stored).
WriteFailures(n) == {{}, 1..n}

(***************************************************************************)
(* ETLService: sources, jobs and the upstream services                     *)
(***************************************************************************)
microservice_endpoints ==
    {"accounts-payable", "accounts-receivable", "authentication", "cash-flow", "company",
     "create-people", "employee-costs", "project-management", "supplier",
     "bank-integration", "financial-reports", "communication", "calculation-materials",
     "construction-integrations"}

\* A connection string: JSON text that parses to {service_name, endpoints},
\* or text json.loads rejects.
ConnJson(service_name, endpoints) ==
    [valid |-> TRUE, service_name |-> service_name, endpoints |-> endpoints]
ConnMalformed == [valid |-> FALSE, service_name |-> "", endpoints |-> <<>>]

\* The data_sources table (type and connection_string never change).
DataSource ==
    [s \in 1..10 |->
       CASE s = 1 -> [type |-> "microservice",
                      connection_string |->
                          ConnJson("cash-flow", <<"transactions", "balances", "forecast">>)]
         [] s = 2 -> [type |-> "microservice",
                      connection_string |-> ConnJson("inventory", <<"items">>)]
         [] s = 3 -> [type |-> "database", connection_string |-> ConnJson("", <<>>)]
         [] s = 4 -> [type |-> "stream", connection_string |-> ConnJson("", <<>>)]
         [] s = 5 -> [type |-> "microservice", connection_string |-> ConnMalformed]
         [] s = 6 -> [type |-> "api", connection_string |-> ConnJson("", <<>>)]
         [] s = 7 -> [type |-> "file", connection_string |-> ConnJson("", <<>>)]
         [] s = 8 -> [type |-> "database", connection_string |-> ConnMalformed]
         [] s = 9 -> [type |-> "microservice",
                      connection_string |-> ConnJson("accounts-payable", <<"invoices">>)]
         [] OTHER -> [type |-> "microservice",
                      connection_string |-> ConnJson("accounts-receivable", <<"invoices">>)]]

\* data_source_id of the rows of the etl_jobs table (no row has id 6), and
\* the job ids callers pass to execute_etl_job: in one deployment those of the
\* first five sources and the id that has no row, in another those of the
\* database, api and file sources and of the two ledger services.
JobSource == [j \in (1..11) \ {6} |-> IF j < 6 THEN j ELSE j - 1]
SubmittedIds == 1..6
LedgerSubmittedIds == {3} \cup (7..11)

\* Cash-flow records the upstream returns.
RecordIds == <<"t1", "t2", "t3", "t4", "t5", "t6", "t7", "t8", "t9", "t10">>
ValidRecord(j) ==
    Dict([id |-> Str(RecordIds[j]), date |-> DateStr("%Y-%m-%d", Today - j),
          type |-> Str("outflow"), amount |-> Num(100 * j)])
\* No type, and a date that is no date.
InvalidRecord(j) ==
    Dict([id |-> Str(RecordIds[j]), date |-> Str("yesterday"),
          amount |-> Num(100 * j), inflow |-> Num(100 * j), project_id |-> Str(RecordIds[j])])

\* A list payload of n records, the last `bad` of them invalid.
ListPayload(n, bad) ==
    Payload("list", [j \in 1..n |-> IF j > n - bad THEN InvalidRecord(j) ELSE ValidRecord(j)],
            n = 0)

\* Payable and receivable records the upstream returns, each with an amount
\* that is a number.
PayableRecord(j) ==
    Dict([id |-> Str(RecordIds[j]), amount |-> Num(150000 * j),
          due_date |-> DateStr("%Y-%m-%d", Today + 40), supplier_id |-> Str("s1"),
          status |-> Str("approved")])
ReceivableRecord(j) ==
    Dict([id |-> Str(RecordIds[j]), amount |-> Num(5000 * j), customer_id |-> Str("c1"),
          payment_date |-> DateStr("%Y-%m-%d", Today + 10), status |-> Str("pending")])

HttpResponse(status_code, data) == [kind |-> "http", status_code |-> status_code, data |-> data]
RequestException == [kind |-> "RequestException", status_code |-> 0, data |-> ListPayload(0, 0)]

\* What requests.get produces, by name.
Response(name) ==
    CASE name = "ok5" -> HttpResponse(200, ListPayload(5, 0))
      [] name = "http500" -> HttpResponse(500, ListPayload(0, 0))
      [] name = "created201" -> HttpResponse(201, ListPayload(2, 0))
      [] name = "fail20" -> HttpResponse(200, ListPayload(5, 1))
      [] name = "accept10" -> HttpResponse(200, ListPayload(10, 1))
      [] name = "payables2" ->
           HttpResponse(200, Payload("list", [j \in 1..2 |-> PayableRecord(j)], FALSE))
      [] name = "receivables2" ->
           HttpResponse(200, Payload("list", [j \in 1..2 |-> ReceivableRecord(j)], FALSE))
      [] OTHER -> RequestException

\* The responses an endpoint of the upstream may give to one fetch.
Upstream(service_name, endpoint) ==
    CASE endpoint = "transactions" -> {"ok5", "timeout"}
      [] endpoint = "balances" -> {"http500", "created201"}
      [] endpoint = "forecast" -> {"fail20", "accept10"}
      [] endpoint = "invoices" /\ service_name = "accounts-payable" -> {"payables2"}
      [] endpoint = "invoices" /\ service_name = "accounts-receivable" -> {"receivables2"}
      [] OTHER -> {"timeout"}

\* How many times execute_etl_job is called.
MaxSubmits == 2

NoMetadata == [service_name |-> "", endpoints_processed |-> 0, extraction_details |-> <<>>,
               type |-> "", status |-> "none"]
NoResult == [records_processed |-> 0, records_failed |-> 0, metadata |-> NoMetadata]

VARIABLES
    jobs,        \* the etl_jobs rows, as committed
    last_sync,   \* DataSource.last_sync of each source, as committed
    metrics,     \* the distinct rows of analytics_metrics, as committed
    threads,     \* the run_job threads, in the order they were started
    returned,    \* what each execute_etl_job call returned, in call order
    stored,      \* history: <<service, response>> for each payload transformed and stored
    lastRun,     \* history: for each job, the run that last wrote its outcome
    validation,  \* a call of DataValidator.validate_microservice_data and its verdict
    transformation  \* a call of DataTransformer.transform_microservice_data and its result

vars == <<jobs, last_sync, metrics, threads, returned, stored, lastRun, validation,
          transformation>>

\* A datetime.utcnow() stamp is held as the number of the thread that took it:
\* 0 is the stamp of the row's creation, Never is a column still NULL.
Never == -1

Idle(job_id, pc) ==
    [job_id |-> job_id, pc |-> pc, i |-> 0, total_records |-> 0, failed_records |-> 0,
     extracted_data |-> <<>>, fetched |-> <<>>, result |-> NoResult, error |-> ""]

\* The tables, the threads and the histories before any call.
ServiceInit ==
    /\ jobs = [j \in DOMAIN JobSource |->
                 [data_source_id |-> JobSource[j], status |-> "pending",
                  records_processed |-> 0, records_failed |-> 0, start_time |-> 0,
                  end_time |-> Never, error_message |-> Null, job_metadata |-> NoMetadata]]
    /\ last_sync = [s \in DOMAIN DataSource |-> Never]
    /\ metrics = {}
    /\ threads = <<>>
    /\ returned = <<>>
    /\ stored = {}
    /\ lastRun = [j \in DOMAIN JobSource |-> [by |-> 0, via |-> "none", fetched |-> <<>>]]

\* No call of the validator or of the transformer has been made.
NoVerdict == [is_valid |-> FALSE, errors |-> <<>>, warnings |-> <<>>,
              records_validated |-> 0, records_failed |-> 0]
NoValidation == [service_name |-> "", data |-> Payload("scalar", <<>>, TRUE), done |-> FALSE,
                 result |-> NoVerdict]
NoTransformation == [service_name |-> "", data |-> Payload("scalar", <<>>, TRUE),
                     done |-> FALSE, result |-> <<>>, redone |-> FALSE, again |-> <<>>]

Init ==
    /\ ServiceInit
    /\ validation = NoValidation
    /\ transformation = NoTransformation

\* What execute_etl_job returns for job_id.
StartedHandle(job_id) == [status |-> "started", job_id |-> job_id]

\* execute_etl_job(job_id): start a run_job thread and return at once.
execute_etl_job(job_id) ==
    /\ Len(threads) < MaxSubmits
    /\ threads' = Append(threads, Idle(job_id, "start"))
    /\ returned' = Append(returned, StartedHandle(job_id))
    /\ UNCHANGED <<jobs, last_sync, metrics, stored, lastRun, validation, transformation>>

\* The job row after run_job's first commit.
RunningJob(job, now) == [job EXCEPT !.status = "running", !.start_time = now]

StubResult(type) ==
    [records_processed |-> 0, records_failed |-> 0,
     metadata |-> [NoMetadata EXCEPT !.type = type, !.status = "not_implemented"]]

\* ExtractBegin with stubs that do not read the connection string.
ExtractBegin_StubIgnoresConnection(source) ==
    LET conn == source.connection_string
    IN  IF source.type \notin {"microservice", "database", "api", "file"}
        THEN [pc |-> "except", error |-> "Unsupported source type", result |-> NoResult]
        ELSE IF source.type # "microservice"
        THEN [pc |-> "complete", error |-> "", result |-> StubResult(source.type)]
        ELSE IF ~conn.valid
        THEN [pc |-> "except", error |-> "Expecting value", result |-> NoResult]
        ELSE IF conn.service_name \notin microservice_endpoints
        THEN [pc |-> "except", error |-> "Unknown microservice", result |-> NoResult]
        ELSE [pc |-> "loop", error |-> "", result |-> NoResult]

\* ExtractBegin without the lookup in the registry: a service the registry
\* does not name goes on to the endpoint loop.
ExtractBegin_NoRegistryCheck(source) ==
    LET conn == source.connection_string
    IN  IF source.type \notin {"microservice", "database", "api", "file"}
        THEN [pc |-> "except", error |-> "Unsupported source type", result |-> NoResult]
        ELSE IF ~conn.valid
        THEN [pc |-> "except", error |-> "Expecting value", result |-> NoResult]
        ELSE IF source.type # "microservice"
        THEN [pc |-> "complete", error |-> "", result |-> StubResult(source.type)]
        ELSE [pc |-> "loop", error |-> "", result |-> NoResult]

\* The dispatch on source.type and the part of the extraction routine before
\* its first fetch: where run_job goes next, with the exception text or the
\* result when there is one.
ExtractBegin(source) ==
    LET conn == source.connection_string
    IN  IF source.type \notin {"microservice", "database", "api", "file"}
        THEN [pc |-> "except", error |-> "Unsupported source type", result |-> NoResult]
        ELSE IF ~conn.valid
        THEN [pc |-> "except", error |-> "Expecting value", result |-> NoResult]
        ELSE IF source.type # "microservice"
        THEN [pc |-> "complete", error |-> "", result |-> StubResult(source.type)]
        ELSE IF conn.service_name \notin microservice_endpoints
        THEN [pc |-> "except", error |-> "Unknown microservice", result |-> NoResult]
        ELSE [pc |-> "loop", error |-> "", result |-> NoResult]

\* The result _extract_from_microservice returns after its loop.
MicroserviceResult(service_name, endpoints, th) ==
    [records_processed |-> th.total_records,
     records_failed |-> th.failed_records,
     metadata |-> [NoMetadata EXCEPT !.service_name = service_name,
                                     !.endpoints_processed = Len(endpoints),
                                     !.extraction_details = th.extracted_data]]

\* NextEndpoint fetching an endpoint a second time when its first fetch
\* ended in a transport failure.
NextEndpoint_RetriesTransportFailure(service_name, endpoints, th) ==
    IF /\ th.i > 0 /\ Len(th.extracted_data) = th.i
       /\ th.extracted_data[th.i].status = "connection_error"
    THEN th
    ELSE IF th.i < Len(endpoints) THEN [th EXCEPT !.i = th.i + 1]
    ELSE [th EXCEPT !.pc = "complete",
                    !.result = MicroserviceResult(service_name, endpoints, th)]

\* The thread after the loop has handled endpoint number th.i.
NextEndpoint(service_name, endpoints, th) ==
    IF th.i < Len(endpoints) THEN [th EXCEPT !.i = th.i + 1]
    ELSE [th EXCEPT !.pc = "complete",
                    !.result = MicroserviceResult(service_name, endpoints, th)]

\* run_job from its start to its first fetch: look the job up (a job id
\* with no row ends the thread), commit the job as running, dispatch on the
\* source type and enter the extraction routine.
RunJobStart(t) ==
    /\ threads[t].pc = "start"
    /\ IF threads[t].job_id \notin DOMAIN jobs
       THEN /\ threads' = [threads EXCEPT ![t].pc = "done"]
            /\ UNCHANGED jobs
       ELSE LET source == DataSource[jobs[threads[t].job_id].data_source_id]
                begin == ExtractBegin(source)
                conn == source.connection_string
                th == [threads[t] EXCEPT !.pc = begin.pc, !.error = begin.error,
                                         !.result = begin.result]
            IN  /\ jobs' = [jobs EXCEPT ![threads[t].job_id] = RunningJob(@, t)]
                /\ threads' = [threads EXCEPT ![t] =
                                  IF begin.pc = "loop"
                                  THEN NextEndpoint(conn.service_name, conn.endpoints, th)
                                  ELSE th]
    /\ UNCHANGED <<last_sync, metrics, returned, stored, lastRun, validation, transformation>>

\* EndpointOutcome with the handler of requests.RequestException missing: a
\* transport failure escapes the loop.
EndpointOutcome_TransportErrorEscapes(service_name, endpoint, response, now, seed, failing) ==
    LET validation_result == validate_microservice_data(service_name, response.data)
        transformed_data == transform_microservice_data(service_name, response.data, now, seed)
        none == [endpoint |-> endpoint, status |-> "", records |-> 0, status_code |-> 0,
                 errors |-> <<>>]
        out(entry, total, failed, recs, rows, raised) ==
            [entry |-> entry, total |-> total, failed |-> failed, stored |-> recs,
             metrics |-> rows, raised |-> raised]
    IN  IF response.kind = "RequestException"
        THEN out([none EXCEPT !.status = "connection_error"], 0, 1, <<>>, {}, TRUE)
        ELSE IF response.status_code # 200
        THEN out([none EXCEPT !.status = "http_error",
                              !.status_code = response.status_code], 0, 1, <<>>, {}, FALSE)
        ELSE IF ~validation_result.is_valid
        THEN out([none EXCEPT !.status = "validation_failed",
                              !.errors = validation_result.errors], 0, 1, <<>>, {}, FALSE)
        ELSE out([none EXCEPT !.status = "success", !.records = Len(transformed_data)],
                 Len(transformed_data), 0, RecordsOf(response.data),
                 _store_in_warehouse(service_name, endpoint, transformed_data, failing), FALSE)

\* EndpointOutcome counting a rejected payload's failed records, not one unit.
EndpointOutcome_CountsFailedRecords(service_name, endpoint, response, now, seed, failing) ==
    LET validation_result == validate_microservice_data(service_name, response.data)
        transformed_data == transform_microservice_data(service_name, response.data, now, seed)
        none == [endpoint |-> endpoint, status |-> "", records |-> 0, status_code |-> 0,
                 errors |-> <<>>]
        out(entry, total, failed, recs, rows) ==
            [entry |-> entry, total |-> total, failed |-> failed, stored |-> recs,
             metrics |-> rows, raised |-> FALSE]
    IN  IF response.kind = "RequestException"
        THEN out([none EXCEPT !.status = "connection_error"], 0, 1, <<>>, {})
        ELSE IF response.status_code # 200
        THEN out([none EXCEPT !.status = "http_error",
                              !.status_code = response.status_code], 0, 1, <<>>, {})
        ELSE IF ~validation_result.is_valid
        THEN out([none EXCEPT !.status = "validation_failed",
                              !.errors = validation_result.errors], 0,
                 validation_result.records_failed + 1, <<>>, {})
        ELSE out([none EXCEPT !.status = "success", !.records = Len(transformed_data)],
                 Len(transformed_data), 0, RecordsOf(response.data),
                 _store_in_warehouse(service_name, endpoint, transformed_data, failing))

\* EndpointOutcome with _create_analytics_metrics raising what its commit
\* raised: the failure of a write escapes the loop.
EndpointOutcome_WriteFailureEscapes(service_name, endpoint, response, now, seed, failing) ==
    LET validation_result == validate_microservice_data(service_name, response.data)
        transformed_data == transform_microservice_data(service_name, response.data, now, seed)
        none == [endpoint |-> endpoint, status |-> "", records |-> 0, status_code |-> 0,
                 errors |-> <<>>]
        out(entry, total, failed, recs, rows, raised) ==
            [entry |-> entry, total |-> total, failed |-> failed, stored |-> recs,
             metrics |-> rows, raised |-> raised]
    IN  IF response.kind = "RequestException"
        THEN out([none EXCEPT !.status = "connection_error"], 0, 1, <<>>, {}, FALSE)
        ELSE IF response.status_code # 200
        THEN out([none EXCEPT !.status = "http_error",
                              !.status_code = response.status_code], 0, 1, <<>>, {}, FALSE)
        ELSE IF ~validation_result.is_valid
        THEN out([none EXCEPT !.status = "validation_failed",
                              !.errors = validation_result.errors], 0, 1, <<>>, {}, FALSE)
        ELSE out([none EXCEPT !.status = "success", !.records = Len(transformed_data)],
                 Len(transformed_data), 0, RecordsOf(response.data),
                 _store_in_warehouse(service_name, endpoint, transformed_data, failing),
                 failing # {})

\* One pass of the endpoint loop on what requests.get produced: the entry of
\* extracted_data, what is added to the two counters, the records transformed
\* and stored, the metric rows written, and whether an exception escapes.
EndpointOutcome(service_name, endpoint, response, now, seed, failing) ==
    LET validation_result == validate_microservice_data(service_name, response.data)
        transformed_data == transform_microservice_data(service_name, response.data, now, seed)
        none == [endpoint |-> endpoint, status |-> "", records |-> 0, status_code |-> 0,
                 errors |-> <<>>]
        out(entry, total, failed, recs, rows) ==
            [entry |-> entry, total |-> total, failed |-> failed, stored |-> recs,
             metrics |-> rows, raised |-> FALSE]
    IN  IF response.kind = "RequestException"
        THEN out([none EXCEPT !.status = "connection_error"], 0, 1, <<>>, {})
        ELSE IF response.status_code # 200
        THEN out([none EXCEPT !.status = "http_error",
                              !.status_code = response.status_code], 0, 1, <<>>, {})
        ELSE IF ~validation_result.is_valid
        THEN out([none EXCEPT !.status = "validation_failed",
                              !.errors = validation_result.errors], 0, 1, <<>>, {})
        ELSE out([none EXCEPT !.status = "success", !.records = Len(transformed_data)],
                 Len(transformed_data), 0,
                 RecordsOf(response.data),
                 _store_in_warehouse(service_name, endpoint, transformed_data, failing))

\* EndpointOutcome for every service, endpoint, response and thread of the
\* model, computed once: for each set of failing commits, the outcomes under
\* the salts the process may have drawn.
ConfiguredServices ==
    {DataSource[s].connection_string.service_name : s \in DOMAIN DataSource}
ConfiguredEndpoints ==
    UNION {{DataSource[s].connection_string.endpoints[j] :
               j \in 1..Len(DataSource[s].connection_string.endpoints)} : s \in DOMAIN DataSource}
ResponseNames ==
    UNION {Upstream(svc, e) : svc \in ConfiguredServices, e \in ConfiguredEndpoints}
OutcomeTable ==
    [svc \in ConfiguredServices, e \in ConfiguredEndpoints, name \in ResponseNames,
     t \in 1..MaxSubmits |->
        [failing \in WriteFailures(Len(RecordsOf(Response(name).data))) |->
            {EndpointOutcome(svc, e, Response(name), t, seed, failing) : seed \in HashSeeds}]]

\* The endpoint loop: fetch endpoint number i, validate, transform, store.
FetchEndpoint(t) ==
    /\ threads[t].pc = "loop"
    /\ LET th == threads[t]
           conn == DataSource[jobs[th.job_id].data_source_id].connection_string
           endpoint == conn.endpoints[th.i]
           table(response) == OutcomeTable[conn.service_name, endpoint, response, t]
       IN  \E response \in Upstream(conn.service_name, endpoint) :
           \E failing \in DOMAIN table(response) :
           \E o \in table(response)[failing] :
             LET counted == [th EXCEPT !.total_records = @ + o.total,
                                       !.failed_records = @ + o.failed,
                                       !.extracted_data = Append(@, o.entry),
                                       !.fetched = Append(@, response)]
             IN  /\ threads' = [threads EXCEPT ![t] =
                                  IF o.raised
                                  THEN [counted EXCEPT !.pc = "except", !.error = "escaped"]
                                  ELSE NextEndpoint(conn.service_name, conn.endpoints, counted)]
                 /\ metrics' = metrics \cup o.metrics
                 /\ stored' = IF o.stored = <<>> THEN stored
                               ELSE stored \cup {<<conn.service_name, response>>}
    /\ UNCHANGED <<jobs, last_sync, returned, lastRun, validation, transformation>>

\* CompletedJob treating a run in which nothing was processed as a failure.
CompletedJob_FailsWhenNothingProcessed(job, result, now) ==
    [job EXCEPT !.status = IF result.records_processed = 0 /\ result.records_failed > 0
                           THEN "failed" ELSE "completed",
                !.end_time = now,
                !.records_processed = result.records_processed,
                !.records_failed = result.records_failed,
                !.job_metadata = result.metadata]

\* The job row after run_job's commit on the way out of the try block.
CompletedJob(job, result, now) ==
    [job EXCEPT !.status = "completed", !.end_time = now,
                !.records_processed = result.records_processed,
                !.records_failed = result.records_failed,
                !.job_metadata = result.metadata]

\* FailedJob with the handler recording the error and leaving the status.
FailedJob_StatusUntouched(job, error, now) ==
    [job EXCEPT !.end_time = now, !.error_message = Str(error)]

\* The job row after the commit of run_job's exception handler.
FailedJob(job, error, now) ==
    [job EXCEPT !.status = "failed", !.end_time = now, !.error_message = Str(error)]

\* SyncedSource stamping the source on every way out of run_job.
SyncedSource_Always(last, via, now) == now

\* source.last_sync after run_job ended the way `via` says.
SyncedSource(last, via, now) == IF via = "complete" THEN now ELSE last

\* run_job after the extraction routine returned: lines 70-81.
Complete(t) ==
    /\ threads[t].pc = "complete"
    /\ LET th == threads[t]
           src == jobs[th.job_id].data_source_id
       IN  /\ jobs' = [jobs EXCEPT ![th.job_id] = CompletedJob(@, th.result, t)]
           /\ last_sync' = [last_sync EXCEPT ![src] = SyncedSource(@, "complete", t)]
           /\ lastRun' = [lastRun EXCEPT ![th.job_id] =
                             [by |-> t, via |-> "complete", fetched |-> th.fetched]]
           /\ threads' = [threads EXCEPT ![t] = Idle(th.job_id, "done")]
    /\ UNCHANGED <<metrics, returned, stored, validation, transformation>>

\* Fail marking failed every job that is running, not only its own.
Fail_FailsEveryRunningJob(t) ==
    /\ threads[t].pc = "except"
    /\ LET th == threads[t]
           src == jobs[th.job_id].data_source_id
       IN  /\ jobs' = [j \in DOMAIN jobs |->
                         IF j = th.job_id \/ jobs[j].status = "running"
                         THEN FailedJob(jobs[j], th.error, t) ELSE jobs[j]]
           /\ last_sync' = [last_sync EXCEPT ![src] = SyncedSource(@, "except", t)]
           /\ lastRun' = [lastRun EXCEPT ![th.job_id] =
                             [by |-> t, via |-> "except", fetched |-> th.fetched]]
           /\ threads' = [threads EXCEPT ![t] = Idle(th.job_id, "done")]
    /\ UNCHANGED <<metrics, returned, stored, validation, transformation>>

\* run_job's exception handler: lines 83-92.
Fail(t) ==
    /\ threads[t].pc = "except"
    /\ LET th == threads[t]
           src == jobs[th.job_id].data_source_id
       IN  /\ jobs' = [jobs EXCEPT ![th.job_id] = FailedJob(@, th.error, t)]
           /\ last_sync' = [last_sync EXCEPT ![src] = SyncedSource(@, "except", t)]
           /\ lastRun' = [lastRun EXCEPT ![th.job_id] =
                             [by |-> t, via |-> "except", fetched |-> th.fetched]]
           /\ threads' = [threads EXCEPT ![t] = Idle(th.job_id, "done")]
    /\ UNCHANGED <<metrics, returned, stored, validation, transformation>>

Next ==
    \/ \E job_id \in SubmittedIds : execute_etl_job(job_id)
    \/ \E t \in DOMAIN threads : RunJobStart(t)
    \/ \E t \in DOMAIN threads : FetchEndpoint(t)
    \/ \E t \in DOMAIN threads : Complete(t)
    \/ \E t \in DOMAIN threads : Fail(t)

Spec == Init /\ [][Next]_vars

\* A step of run number t.  The runs are operating-system threads: one that
\* can take a step (its fetch returns or times out after 30 s, its commit
\* returns) is not held back for ever.
RunStep(t) ==
    /\ t \in DOMAIN threads
    /\ (RunJobStart(t) \/ FetchEndpoint(t) \/ Complete(t) \/ Fail(t))

FairSpec == Spec /\ \A t \in 1..MaxSubmits : WF_vars(RunStep(t))

\* The same service, called for the jobs of the stub sources and of the
\* ledger services.
LedgerNext ==
    \/ \E job_id \in LedgerSubmittedIds : execute_etl_job(job_id)
    \/ \E t \in DOMAIN threads : RunJobStart(t)
    \/ \E t \in DOMAIN threads : FetchEndpoint(t)
    \/ \E t \in DOMAIN threads : Complete(t)
    \/ \E t \in DOMAIN threads : Fail(t)

LedgerSpec == Init /\ [][LedgerNext]_vars

(***************************************************************************)
(* DataValidator called on its own: validate_microservice_data applied to  *)
(* one payload of one service.                                             *)
(***************************************************************************)
\* The services with a rule set in both engines, and one with none.
RuleServices == DOMAIN validation_rules
CalledServices == RuleServices \cup {"inventory"}

\* Lengths of the payloads the engines are called on.
MaxBatch == 11
MaxBad == 2
MaxIndex == 3

\* dict edits: del r[field], r[field] = v.
Without(r, field) == [x \in DOMAIN r \ {field} |-> r[x]]
With(r, field, v) == [x \in DOMAIN r \cup {field} |-> IF x = field THEN v ELSE r[x]]

\* A record of each service that passes every check without a warning.
BaseRecord(service_name) ==
    CASE service_name = "accounts-payable" ->
           [id |-> Str("p1"), amount |-> Num(150000),
            due_date |-> DateStr("%Y-%m-%d", Today + 40), supplier_id |-> Str("s1"),
            status |-> Str("approved")]
      [] service_name = "accounts-receivable" ->
           [id |-> Str("r1"), amount |-> Num(5000), customer_id |-> Str("c1"),
            payment_date |-> DateStr("%Y-%m-%d", Today + 10), status |-> Str("pending")]
      [] service_name = "project-management" ->
           [id |-> Str("j1"), name |-> Str("Bridge"),
            start_date |-> DateStr("%Y-%m-%d", Today - 10),
            end_date |-> DateStr("%Y-%m-%d", Today + 10),
            budget |-> Num(1000), actual_cost |-> Num(400)]
      [] OTHER ->
           [id |-> Str("t1"), date |-> DateStr("%Y-%m-%d", Today - 1),
            type |-> Str("inflow"), amount |-> Num(100)]

SeqRange(q) == {q[j] : j \in 1..Len(q)}
FieldsOfType(rules, type) ==
    {rules.field_types[j][1] : j \in {j \in 1..Len(rules.field_types) :
                                          rules.field_types[j][2] = type}}

\* Records an upstream may send in place of the base record: a required
\* field absent, null or empty; a value of the wrong type; a value at or
\* beyond a range limit; a value outside the pattern.
FieldVariants(service_name) ==
    LET rules == validation_rules[service_name]
        b == BaseRecord(service_name)
    IN  {Without(b, f) : f \in SeqRange(rules.required_fields)}
        \cup {With(b, f, v) : f \in SeqRange(rules.required_fields), v \in {Null, Str("")}}
        \cup {With(b, f, v) : f \in FieldsOfType(rules, "numeric"),
                              v \in {Str("abc"), NumStr(250), Null}}
        \cup {With(b, f, v) : f \in FieldsOfType(rules, "date"),
                              v \in {Str("yesterday"), Num(20250101),
                                     DateStr("%d/%m/%Y", Today + 40)}}
        \cup UNION {{With(b, rules.field_ranges[j].field, Num(v)) :
                        v \in {rules.field_ranges[j].min - 1, rules.field_ranges[j].min,
                               rules.field_ranges[j].max, rules.field_ranges[j].max + 1}} :
                    j \in 1..Len(rules.field_ranges)}
        \cup UNION {{With(b, rules.field_patterns[j].field, v) :
                        v \in {Str("archived"), Str("PAID"), Num(1), Null}} :
                    j \in 1..Len(rules.field_patterns)}

\* Records that meet or break the business rules of their service.
DateFormatsSent == {"%Y-%m-%d", "%d/%m/%Y", "%Y-%m-%dT%H:%M:%S"}
BusinessVariants(service_name) ==
    LET b == BaseRecord(service_name)
    IN  CASE service_name = "accounts-payable" ->
               {With(With(b, "status", Str("pending")), "due_date", DateStr("%Y-%m-%d", d)) :
                   d \in {Today - 3, Today, Today + 1}}
               \cup {With(With(b, "status", Str("pending")), "due_date", Num(20250101))}
               \cup {With(b, "amount", v) : v \in {Num(0), NumStr(0), Num(1)}}
          [] service_name = "project-management" ->
               {With(With(b, "start_date", DateStr(f1, Today)), "end_date", DateStr(f2, e)) :
                   f1 \in DateFormatsSent, f2 \in DateFormatsSent,
                   e \in {Today - 1, Today, Today + 1}}
               \cup {With(b, "actual_cost", Num(c)) : c \in {1500, 1501}}
               \cup {Without(b, "end_date")}
          [] service_name = "cash-flow" ->
               {With(b, "amount", Num(a)) : a \in {1000000, 1000001, -1000001}}
          [] OTHER -> {}

\* What may stand at one position of a payload's list.
Variants(service_name) ==
    IF service_name \notin RuleServices
    THEN {Dict(BaseRecord("cash-flow")), NonDict(Num(5))}
    ELSE {Dict(r) : r \in FieldVariants(service_name) \cup BusinessVariants(service_name)}
         \cup {Dict(BaseRecord(service_name)), NonDict(Num(5))}

\* A record that fails validation (its id is missing).
RejectedRecord(service_name) ==
    IF service_name \in RuleServices THEN Dict(Without(BaseRecord(service_name), "id"))
    ELSE Dict(BaseRecord("cash-flow"))

\* A payload of n records, base records but for `bad` times the record
\* `other` from position `first` on; as a JSON array or as {"data": [...]}.
Batch(service_name, shape, n, first, bad, other) ==
    Payload(shape,
            [j \in 1..n |-> IF j >= first /\ j < first + bad THEN other
                            ELSE IF service_name \in RuleServices
                                 THEN Dict(BaseRecord(service_name))
                                 ELSE Dict(BaseRecord("cash-flow"))],
            shape = "list" /\ n = 0)

\* Payloads that are no object and no array, or are empty: null, '', 0 and
\* false; [] and {}; a text, a number other than 0 and true.
MalformedPayloads ==
    {Payload("scalar", <<>>, TRUE), Payload("list", <<>>, TRUE),
     Payload("dict", <<Dict(<<>>)>>, TRUE), Payload("scalar", <<>>, FALSE)}

\* The payloads the engines are called on, for one service.
PayloadsFor(service_name) ==
    MalformedPayloads
    \cup {Batch(service_name, shape, n, n - bad + 1, bad, RejectedRecord(service_name)) :
             shape \in {"list", "wrapper_list"}, n \in 0..MaxBatch,
             bad \in 0..MaxBad}
    \cup {Batch(service_name, "list", MaxIndex, first, 1, v) :
             first \in 1..MaxIndex, v \in Variants(service_name)}
    \cup {Payload(shape, <<v>>, FALSE) :
             shape \in {"dict", "wrapper_one"}, v \in Variants(service_name)}

ValidationCalls ==
    UNION {{[service_name |-> svc, data |-> p, done |-> FALSE, result |-> NoVerdict] :
               p \in {p \in PayloadsFor(svc) : ~(p.shape = "dict" /\ p.items[1].t # "dict")}} :
           svc \in CalledServices}

ValidatorInit ==
    /\ ServiceInit
    /\ validation \in ValidationCalls
    /\ transformation = NoTransformation

\* validation_result = self.validator.validate_microservice_data(...)
ValidatePayload ==
    /\ ~validation.done
    /\ validation' = [validation EXCEPT
                         !.done = TRUE,
                         !.result = validate_microservice_data(validation.service_name,
                                                               validation.data)]
    /\ UNCHANGED <<jobs, last_sync, metrics, threads, returned, stored, lastRun,
                   transformation>>

ValidatorNext == ValidatePayload

ValidatorSpec == ValidatorInit /\ [][ValidatorNext]_vars

(***************************************************************************)
(* DataTransformer called on its own: transform_microservice_data applied  *)
(* to one payload of one service.                                          *)
(***************************************************************************)
\* A key the record does not hold.
Absent == [k |-> "absent", s |-> "", n |-> 0]
Put(r, field, v) == IF v = Absent THEN Without(r, field) ELSE With(r, field, v)

\* Amounts on both sides of each tier limit of the two scores, as numbers
\* and as text; due and payment dates on both sides of each age limit, and
\* one in a format the scores do not parse; statuses in either case.
AmountsSent ==
    {Absent, Null, Str("abc"), NumStr(150000)}
    \cup {Num(a) : a \in {0, 10000, 10001, 50000, 50001, 100000, 100001, 150000,
                          500000, 500001, 600000}}
DueDatesSent ==
    {Absent, Num(20250101), DateStr("%d/%m/%Y", Today - 10)}
    \cup {DateStr("%Y-%m-%d", Today + d) : d \in {-10, 0, 1, 7, 8, 30, 31}}
PaymentDatesSent ==
    {Absent, Num(20250101), DateStr("%d/%m/%Y", Today - 100)}
    \cup {DateStr("%Y-%m-%d", Today - d) : d \in {-5, 0, 1, 30, 31, 60, 61, 90, 91}}
StatusesSent ==
    {Absent, Null, Str("overdue"), Str("Overdue"), Str("pending"), Str("paid"), Str("PAID"),
     Str("partial"), Str("approved")}

\* Keys an upstream may send beside the ones the mapping table names: a plain
\* one, and ones named like a calculated field, a mapping target or a
\* metadata field.
ExtraKeys(service_name) ==
    {"notes", "_source_service", "_transformed_at", "_record_hash"}
    \cup SeqRange(calculated_fields[service_name])
    \cup ({field_mappings[service_name][j][2] : j \in 1..Len(field_mappings[service_name])}
          \ {field_mappings[service_name][j][1] : j \in 1..Len(field_mappings[service_name])})

RecordsSent(service_name) ==
    LET b == BaseRecord(service_name)
        scored == CASE service_name = "accounts-payable" ->
                         {Put(Put(Put(b, "amount", a), "due_date", d), "status", st) :
                             a \in AmountsSent, d \in DueDatesSent, st \in StatusesSent}
                    [] service_name = "accounts-receivable" ->
                         {Put(Put(Put(b, "amount", a), "payment_date", d), "status", st) :
                             a \in AmountsSent, d \in PaymentDatesSent, st \in StatusesSent}
                    [] OTHER -> {b}
    IN  scored \cup {With(b, key, Str("kept")) : key \in ExtraKeys(service_name)}

TransformationCalls ==
    UNION {{[NoTransformation EXCEPT !.service_name = svc,
                                     !.data = Payload("dict", <<Dict(r)>>, FALSE)] :
               r \in RecordsSent(svc)} : svc \in RuleServices}
    \cup UNION {{[NoTransformation EXCEPT !.service_name = svc, !.data = p] :
                    p \in MalformedPayloads
                          \cup {Batch(svc, "wrapper_list", MaxIndex, 1, 1, NonDict(Num(5)))}
                          \cup {Batch(svc, shape, MaxIndex, 1, 0, Null) :
                                   shape \in {"list", "wrapper_list", "wrapper_one"}}} :
                 svc \in CalledServices}

TransformerInit ==
    /\ ServiceInit
    /\ validation = NoValidation
    /\ transformation \in TransformationCalls

\* transformed_data = self.transformer.transform_microservice_data(...), at
\* the time utcnow() gives.
TransformPayload ==
    /\ ~transformation.done
    /\ \E now \in 1..MaxSubmits, seed \in HashSeeds :
          transformation' = [transformation EXCEPT
                                !.done = TRUE,
                                !.result = transform_microservice_data(
                                               transformation.service_name,
                                               transformation.data, now, seed)]
    /\ UNCHANGED <<jobs, last_sync, metrics, threads, returned, stored, lastRun, validation>>

\* The same call made once more, by a process started later: the salt is
\* the one that process drew.
TransformAgain ==
    /\ transformation.done /\ ~transformation.redone
    /\ \E now \in 1..MaxSubmits, seed \in HashSeeds :
          transformation' = [transformation EXCEPT
                                !.redone = TRUE,
                                !.again = transform_microservice_data(
                                              transformation.service_name,
                                              transformation.data, now, seed)]
    /\ UNCHANGED <<jobs, last_sync, metrics, threads, returned, stored, lastRun, validation>>

TransformerNext == TransformPayload \/ TransformAgain

TransformerSpec == TransformerInit /\ [][TransformerNext]_vars

(***************************************************************************)
(* The claims                                                              *)
(***************************************************************************)
Terminal == {"completed", "failed"}
SourceOf(j) == DataSource[jobs[j].data_source_id]
ConnOf(j) == SourceOf(j).connection_string
\* The jobs whose source is a service the registry resolves.
ServiceJobs == {j \in DOMAIN jobs : ExtractBegin(SourceOf(j)).pc = "loop"}
\* The thread has marked its job running and has not yet written its outcome.
Active(t) == threads[t].pc \in {"loop", "complete", "except"}

\* The verdict on each response's payload, computed once.
Verdict ==
    [svc \in ConfiguredServices, name \in ResponseNames |->
       validate_microservice_data(svc, Response(name).data)]
\* The response passed the fetch stage and its payload was accepted.
Accepted(svc, name) ==
    Response(name).kind = "http" /\ Response(name).status_code = 200 /\ Verdict[svc, name].is_valid
RecordCount(name) == Len(RecordsOf(Response(name).data))
\* The responses whose payload holds a record that fails validation.
HasInvalidRecord ==
    [svc \in ConfiguredServices, name \in ResponseNames |->
       \E k \in 1..RecordCount(name) :
          ~_validate_record(svc, RecordsOf(Response(name).data)[k], k - 1).is_valid]
Statuses(details) == [k \in 1..Len(details) |-> details[k].status]

\* C1: a job's status changes only along pending -> running -> completed or
\* pending -> running -> failed, whatever execute_etl_job calls are made.
C1_StatusTransitionsMonotonic ==
    [][\A j \in DOMAIN jobs :
          jobs'[j].status # jobs[j].status =>
             <<jobs[j].status, jobs'[j].status>> \in
                {<<"pending", "running">>, <<"running", "completed">>, <<"running", "failed">>}]_vars

\* C2: once execute_etl_job has returned its started handle for an existing
\* job, the job is never observed in pending.
C2_NotPendingAfterReturn ==
    \A c \in DOMAIN returned :
       returned[c].job_id \in DOMAIN jobs /\ returned[c].status = "started"
          => jobs[returned[c].job_id].status # "pending"

\* C3: execute_etl_job on a job id with no row returns an error, not a started
\* handle, and changes no job, source or metric.
C3_MissingJobReturnsError ==
    \A c \in DOMAIN returned :
       returned[c].job_id \notin DOMAIN jobs => returned[c].status = "error"

\* C4: no two extraction tasks are active on the same job at the same time.
C4_OneActiveTaskPerJob ==
    \A t1, t2 \in DOMAIN threads :
       t1 # t2 /\ threads[t1].job_id = threads[t2].job_id => ~(Active(t1) /\ Active(t2))

\* C5: once a job is completed or failed, none of its fields is written again.
C5_TerminalJobImmutable ==
    [][\A j \in DOMAIN jobs : jobs[j].status \in Terminal => jobs'[j] = jobs[j]]_vars

\* C6: in a service extraction no endpoint outcome stops the loop: whatever
\* the earlier endpoints ended in, the run holds one outcome per endpoint
\* handled so far, in configured order, no exception is pending, and the job
\* ends completed with an outcome for every configured endpoint.
C6_EndpointFailureDoesNotStopLoop ==
    /\ \A t \in DOMAIN threads :
          LET th == threads[t]
              eps == ConnOf(th.job_id).endpoints
              inOrder(n) == /\ Len(th.extracted_data) = n
                            /\ \A k \in 1..n : th.extracted_data[k].endpoint = eps[k]
          IN  th.job_id \in ServiceJobs =>
                 /\ th.pc # "except"
                 /\ th.pc = "loop" => inOrder(th.i - 1)
                 /\ th.pc = "complete" => inOrder(Len(eps))
    /\ \A j \in ServiceJobs :
          /\ jobs[j].status # "failed"
          /\ jobs[j].status = "completed" =>
                /\ Len(jobs[j].job_metadata.extraction_details) = Len(ConnOf(j).endpoints)
                /\ Len(lastRun[j].fetched) = Len(ConnOf(j).endpoints)
                /\ \A k \in 1..Len(ConnOf(j).endpoints) :
                      jobs[j].job_metadata.extraction_details[k].endpoint = ConnOf(j).endpoints[k]

\* C6 witness: a completed job whose endpoints ended, in order, in a transport
\* failure, a non-success status and a validation failure.
C6_Witness ==
    \E j \in ServiceJobs :
       /\ jobs[j].status = "completed"
       /\ Statuses(jobs[j].job_metadata.extraction_details)
             = <<"connection_error", "http_error", "validation_failed">>

\* C7: a job is completed exactly when the extraction routine returned, even
\* if every endpoint failed; it is failed, with a non-empty error_message,
\* exactly when an exception escaped the extraction routine (unsupported
\* source type, malformed connection string, unknown service name).
C7_CompletedIffExtractionReturned ==
    \A j \in DOMAIN jobs :
       /\ jobs[j].status = "completed" =>
             lastRun[j].via = "complete" /\ ExtractBegin(SourceOf(j)).pc # "except"
       /\ jobs[j].status = "failed" =>
             /\ lastRun[j].via = "except"
             /\ ExtractBegin(SourceOf(j)).pc = "except"
             /\ jobs[j].error_message \notin {Null, Str("")}
       /\ lastRun[j].via = "complete" => jobs[j].status \in {"completed", "running"}
       /\ lastRun[j].via = "except" => jobs[j].status \in {"failed", "running"}

\* C7 witness: a job completed although each of its endpoints failed, beside a
\* job failed on an unknown service name.
C7_Witness ==
    /\ \E j \in ServiceJobs :
          /\ jobs[j].status = "completed"
          /\ jobs[j].records_processed = 0
          /\ jobs[j].records_failed = Len(ConnOf(j).endpoints)
    /\ \E j \in DOMAIN jobs :
          jobs[j].status = "failed" /\ jobs[j].error_message = Str("Unknown microservice")

\* C8: last_sync is written when, and only when, a run ends in completed: a
\* failed job's run left its source's last_sync alone, a completed job's
\* source carries the stamp of a run that completed, and a source that was
\* stamped has a job that a run completed.
C8_LastSyncOnlyOnCompleted ==
    /\ \A j \in DOMAIN jobs :
          LET s == jobs[j].data_source_id
          IN  /\ jobs[j].status = "failed" => last_sync[s] # jobs[j].end_time
              /\ jobs[j].status = "completed" =>
                    \E j2 \in DOMAIN jobs :
                       /\ jobs[j2].data_source_id = s
                       /\ lastRun[j2].via = "complete"
                       /\ last_sync[s] = lastRun[j2].by
              /\ jobs[j].status = "completed" /\ (\A j2 \in DOMAIN jobs \ {j} :
                                                    jobs[j2].data_source_id # s)
                    => last_sync[s] = jobs[j].end_time
    /\ \A s \in DOMAIN last_sync :
          last_sync[s] # Never =>
             \E j \in DOMAIN jobs : jobs[j].data_source_id = s /\ lastRun[j].via = "complete"

\* C8 witness: a failed job whose source was never synchronised beside a
\* completed job whose source was.
C8_Witness ==
    /\ \E j \in DOMAIN jobs :
          jobs[j].status = "failed" /\ last_sync[jobs[j].data_source_id] = Never
    /\ \E j \in DOMAIN jobs :
          jobs[j].status = "completed" /\ last_sync[jobs[j].data_source_id] = jobs[j].end_time

\* C9: for a completed service job, records_processed is the sum of the record
\* counts of the endpoints fetched with success whose payload passed
\* validation, and records_failed counts one for each other endpoint; the
\* recorded outcomes say the same.  Endpoints ending in 5 valid records, a 500
\* and 20% of records failing give 5 processed and 2 failed.
C9_CountersMatchEndpointOutcomes ==
    \A j \in ServiceJobs :
       jobs[j].status = "completed" =>
          LET f == lastRun[j].fetched
              svc == ConnOf(j).service_name
              d == jobs[j].job_metadata.extraction_details
          IN  /\ jobs[j].records_processed =
                    SumSeq([k \in 1..Len(f) |->
                              IF Accepted(svc, f[k]) THEN RecordCount(f[k]) ELSE 0])
              /\ jobs[j].records_failed =
                    Cardinality({k \in 1..Len(f) : ~Accepted(svc, f[k])})
              /\ jobs[j].records_processed =
                    SumSeq([k \in 1..Len(d) |->
                              IF d[k].status = "success" THEN d[k].records ELSE 0])
              /\ jobs[j].records_failed =
                    Cardinality({k \in 1..Len(d) : d[k].status \in
                        {"connection_error", "http_error", "validation_failed"}})
              /\ f = <<"ok5", "http500", "fail20">> =>
                    jobs[j].records_processed = 5 /\ jobs[j].records_failed = 2

\* C9 witness: the completed run of the three-endpoint scenario.
C9_Witness ==
    \E j \in ServiceJobs :
       /\ jobs[j].status = "completed"
       /\ lastRun[j].fetched = <<"ok5", "http500", "fail20">>
       /\ Verdict[ConnOf(j).service_name, "fail20"].records_failed = 1
       /\ Verdict[ConnOf(j).service_name, "fail20"].records_validated = 5

\* C10: only records that passed validation are transformed, written to the
\* warehouse and counted in records_processed, also when the payload as a
\* whole is accepted.
C10_OnlyValidRecordsStored ==
    \A p \in stored : ~HasInvalidRecord[p[1], p[2]]

\* The verdict of the call made, and what it was made on.
Verdict1 == validation.result
Sent == validation.data
\* The payload is a non-empty object or array, or a wrapper of a list, and
\* each of its records is an object.
WellFormed(data) ==
    /\ ~data.falsy
    /\ data.shape # "scalar"
    /\ \A k \in 1..Len(data.items) : data.items[k].t = "dict"
\* The 1-based positions of the records that fail validation on their own.
FailingRecords(service_name, data) ==
    {k \in 1..Len(data.items) :
        ~_validate_record(service_name, data.items[k], k - 1).is_valid}

\* C11: for a well-formed payload the verdict counts every record and every
\* failing record, and is_valid holds exactly when records_failed /
\* records_validated <= 0.10 (0 when nothing was validated): exactly 10% of
\* failed records is valid, anything above is invalid.
C11_ValidIffFailureRateAtMostTenPercent ==
    validation.done /\ WellFormed(Sent) =>
       /\ Verdict1.records_validated = Len(Sent.items)
       /\ Verdict1.records_failed = Cardinality(FailingRecords(validation.service_name, Sent))
       /\ Verdict1.is_valid <=> 10 * Verdict1.records_failed <= Verdict1.records_validated

\* C11 witness: a payload of 10 records of which exactly one failed was found
\* valid.
C11_Witness ==
    /\ validation.done /\ WellFormed(Sent)
    /\ Verdict1.records_validated = 10 /\ Verdict1.records_failed = 1
    /\ Verdict1.is_valid

\* C12: an empty record sequence (an empty array, or a wrapper whose data list
\* is empty) is valid, with nothing validated, nothing failed, no error and no
\* warning.
C12_EmptySequenceIsValid ==
    validation.done /\ Sent.shape \in {"list", "wrapper_list"} /\ Sent.items = <<>> =>
       /\ Verdict1.is_valid
       /\ Verdict1.records_validated = 0 /\ Verdict1.records_failed = 0
       /\ Verdict1.errors = <<>> /\ Verdict1.warnings = <<>>

\* C13: a malformed payload (no object and no array, or empty or null) is
\* invalid with exactly one error, a structural one, nothing validated and
\* nothing failed; no record check ran (none left an error or a warning).
C13_MalformedPayloadShortCircuits ==
    validation.done /\ (Sent.falsy \/ Sent.shape = "scalar") =>
       /\ ~Verdict1.is_valid
       /\ Len(Verdict1.errors) = 1
       /\ Verdict1.errors[1].kind \in {"no_data", "invalid_format"}
       /\ Verdict1.errors[1].field = ""
       /\ Verdict1.records_validated = 0 /\ Verdict1.records_failed = 0
       /\ Verdict1.warnings = <<>>

\* C13 witness: the verdict on an empty array sent for a service without a
\* rule set, where a record check would have left a warning.
C13_Witness ==
    /\ validation.done /\ validation.service_name \notin RuleServices
    /\ Sent.shape = "list" /\ Sent.falsy
    /\ Verdict1.errors = <<Msg(-1, "no_data", "")>>


\* The record at position k of the payload sent, and whether the verdict
\* holds a message about it.
SentRecord(k) == Sent.items[k].f
ErrorsAbout(k) == {j \in 1..Len(Verdict1.errors) : Verdict1.errors[j].record_index = k - 1}
WarningsAbout(k) ==
    {j \in 1..Len(Verdict1.warnings) : Verdict1.warnings[j].record_index = k - 1}
\* The call made was on a well-formed payload of a service with a rule set.
RuledCallDone ==
    validation.done /\ validation.service_name \in RuleServices /\ WellFormed(Sent)
\* The required field is absent from the record, null or the empty string.
Lacks(r, field) == field \notin DOMAIN r \/ r[field] = Null \/ r[field] = Str("")

\* C14: for each service with a rule set and each of its required fields, a
\* record in which the field is absent, null or '' is counted as failed and
\* the verdict holds an error naming the field and the record's 0-based index.
C14_MissingRequiredFieldIsNamed ==
    RuledCallDone =>
       LET required == SeqRange(validation_rules[validation.service_name].required_fields)
           lacking == {k \in 1..Len(Sent.items) : \E f \in required : Lacks(SentRecord(k), f)}
       IN  /\ \A k \in lacking : \A f \in required :
                Lacks(SentRecord(k), f) =>
                   \E j \in 1..Len(Verdict1.errors) :
                      Verdict1.errors[j] = Msg(k - 1, "missing_required", f)
           /\ Verdict1.records_failed >= Cardinality(lacking)

\* C14 witness: the third record of a payable payload has '' as supplier_id,
\* and the verdict names supplier_id and index 2.
C14_Witness ==
    /\ RuledCallDone /\ validation.service_name = "accounts-payable"
    /\ Len(Sent.items) >= 3
    /\ "supplier_id" \in DOMAIN SentRecord(3) /\ SentRecord(3)["supplier_id"] = Str("")
    /\ Verdict1.errors = <<Msg(2, "missing_required", "supplier_id")>>
    /\ Verdict1.records_failed = 1

\* Records whose only defect is a value outside the declared pattern, and
\* records whose only defect is one a soft business check looks for.
PatternOnly(service_name) ==
    LET rules == validation_rules[service_name]
    IN  UNION {{With(BaseRecord(service_name), rules.field_patterns[j].field, v) :
                   v \in {Str("archived"), Str("PAID"), Num(1)}} :
               j \in 1..Len(rules.field_patterns)}
SoftOnly(service_name) ==
    LET b == BaseRecord(service_name)
    IN  CASE service_name = "accounts-payable" ->
               {With(With(b, "status", Str("pending")), "due_date", DateStr("%Y-%m-%d", d)) :
                   d \in {Today - 3, Today}}
          [] service_name = "project-management" -> {With(b, "actual_cost", Num(1501))}
          [] service_name = "cash-flow" ->
               {With(b, "amount", Num(a)) : a \in {1000001, -1000001}}
          [] OTHER -> {}
\* Each record of the payload is sound but for such a defect.
OnlySoftOrPatternDefects ==
    \A k \in 1..Len(Sent.items) :
       SentRecord(k) \in {BaseRecord(validation.service_name)}
                          \cup PatternOnly(validation.service_name)
                          \cup SoftOnly(validation.service_name)

\* C15, as claimed: a pattern mismatch or a soft business check only appends a
\* warning; a record whose only defect is one of these stays valid and adds
\* nothing to errors or to records_failed.
C15_PatternMismatchOnlyWarns ==
    RuledCallDone /\ OnlySoftOrPatternDefects =>
       Verdict1.errors = <<>> /\ Verdict1.records_failed = 0

\* C15, amended: a soft business check only appends a warning about its
\* record, which stays valid; a pattern mismatch appends an error naming the
\* field and the record's index, and no warning, and the record is counted as
\* failed.
C15_SoftChecksWarnPatternMismatchRejects ==
    RuledCallDone /\ OnlySoftOrPatternDefects =>
       LET svc == validation.service_name
           rules == validation_rules[svc]
           mismatched == {k \in 1..Len(Sent.items) : SentRecord(k) \in PatternOnly(svc)}
       IN  /\ \A k \in 1..Len(Sent.items) :
                /\ SentRecord(k) \in SoftOnly(svc) =>
                      ErrorsAbout(k) = {} /\ Cardinality(WarningsAbout(k)) = 1
                /\ SentRecord(k) \in PatternOnly(svc) =>
                      /\ WarningsAbout(k) = {}
                      /\ \A j \in ErrorsAbout(k) :
                            /\ Verdict1.errors[j].kind = "pattern_mismatch"
                            /\ Verdict1.errors[j].field \in
                                  {rules.field_patterns[q].field :
                                      q \in 1..Len(rules.field_patterns)}
                      /\ Cardinality(ErrorsAbout(k)) = 1
                /\ SentRecord(k) = BaseRecord(svc) =>
                      ErrorsAbout(k) = {} /\ WarningsAbout(k) = {}
           /\ Verdict1.records_failed = Cardinality(mismatched)

\* C15 witness: a payable whose status is none of the listed values was
\* rejected with a pattern error on status.
C15_Witness ==
    /\ RuledCallDone /\ validation.service_name = "accounts-payable"
    /\ Sent.shape = "dict"
    /\ SentRecord(1) = With(BaseRecord("accounts-payable"), "status", Str("archived"))
    /\ Verdict1.errors = <<Msg(0, "pattern_mismatch", "status")>>
    /\ Verdict1.records_failed = 1 /\ ~Verdict1.is_valid

\* The record fails a required-field, type, range, pattern or hard business
\* check of its service.
FailsACheck(service_name, r, i) ==
    LET rules == validation_rules[service_name]
    IN  \/ RequiredErrors(rules, r, i) # <<>>
        \/ TypeErrors(rules, r, i) # <<>>
        \/ RangeErrors(rules, r, i) # <<>>
        \/ PatternErrors(rules, r, i) # <<>>
        \/ _validate_business_logic(service_name, r, i).errors # <<>>
Failing == {k \in 1..Len(Sent.items) : FailsACheck(validation.service_name, SentRecord(k), k - 1)}

\* C16, as claimed: is_valid is false whenever at least one record fails a
\* required-field, type, range, pattern or hard business check, however many
\* other records pass.
C16_AnyFailedRecordInvalidatesPayload ==
    RuledCallDone /\ Failing # {} => ~Verdict1.is_valid

\* C16, amended: is_valid is false whenever more than 10% of the records fail
\* such a check; when some but at most 10% fail, is_valid stays true, with the
\* failed records counted and their errors listed.
C16_MoreThanTenPercentFailedInvalidates ==
    RuledCallDone =>
       /\ 10 * Cardinality(Failing) > Len(Sent.items) => ~Verdict1.is_valid
       /\ Failing # {} /\ 10 * Cardinality(Failing) <= Len(Sent.items) =>
             /\ Verdict1.is_valid
             /\ Verdict1.records_failed = Cardinality(Failing)
             /\ \A k \in Failing : ErrorsAbout(k) # {}

\* C16 witness: a wrapper of 11 records with one failing was found valid.
C16_Witness ==
    /\ RuledCallDone /\ Sent.shape = "wrapper_list"
    /\ Len(Sent.items) = 11 /\ Cardinality(Failing) = 1
    /\ Verdict1.is_valid /\ Verdict1.records_failed = 1 /\ Verdict1.errors # <<>>

\* C17: a project-management record whose start_date and end_date both pass
\* the date type check, in any accepted format, and whose end date is not
\* after its start date is marked invalid with an 'End date must be after
\* start date' error; equal dates are rejected.
C17_EndDateMustFollowStartDate ==
    RuledCallDone /\ validation.service_name = "project-management" =>
       \A k \in 1..Len(Sent.items) :
          LET r == SentRecord(k)
          IN  /\ "start_date" \in DOMAIN r /\ "end_date" \in DOMAIN r
              /\ r["start_date"].k = "date" /\ r["end_date"].k = "date"
              /\ _validate_field_type(r["start_date"], "date")
              /\ _validate_field_type(r["end_date"], "date")
              /\ r["end_date"].n <= r["start_date"].n
              => /\ \E j \in ErrorsAbout(k) : Verdict1.errors[j].kind = "end_not_after_start"
                 /\ Verdict1.records_failed >= 1

\* The transformer was called on an object or array of objects for a
\* service with transformation rules; its k-th input and output record.
RuledTransformDone ==
    /\ transformation.done /\ transformation.service_name \in RuleServices
    /\ WellFormed(transformation.data)
Given(k) == transformation.data.items[k].f
Transformed(k) == transformation.result[k].f
\* The value under a key, Absent when the record has no such key.
Get(r, key) == IF key \in DOMAIN r THEN r[key] ELSE Absent
\* The two scores read amount, a date and status: the amount is a number or
\* none, the date a text or none, the status a text or absent (anything else
\* makes the calculation fail, which yields null).
Scorable(r, date_field) ==
    /\ Get(r, "amount").k \in {"absent", "null", "num", "numstr"}
    /\ Get(r, date_field).k \in {"absent", "null", "date", "str"}
    /\ Get(r, "status").k \in {"absent", "str"}
AmountAbove(r, limit) == Get(r, "amount").k \in {"num", "numstr"} /\ r["amount"].n > limit
\* The date is one the scores parse (YYYY-MM-DD) and lies before today.
Before(r, date_field, day) ==
    Get(r, date_field).k = "date" /\ r[date_field].s = "%Y-%m-%d" /\ r[date_field].n < day
StatusIs(r, text) == Get(r, "status").k = "str" /\ Lower(r["status"].s) = text

ClaimedCollectionProbability(r) ==
    LET days == Today - r["payment_date"].n
        age == IF ~Before(r, "payment_date", Today + 1) THEN 10
               ELSE IF days > 90 THEN 3
               ELSE IF days > 60 THEN 5
               ELSE IF days > 30 THEN 7
               ELSE IF days > 0 THEN 9 ELSE 10
        size == IF AmountAbove(r, 500000) THEN 8
                ELSE IF AmountAbove(r, 100000) THEN 9 ELSE 10
    IN  IF StatusIs(r, "paid") THEN 1000
        ELSE IF StatusIs(r, "overdue") THEN age * size * 6
        ELSE IF StatusIs(r, "partial") THEN age * size * 8
        ELSE age * size * 10

\* C19: collection_probability applies the overdue-age discount, then the
\* amount discount (x0.8 above 500000, x0.9 above 100000 up to 500000, none
\* otherwise), then the status override, where 'paid' resets it to 1.0.
C19_CollectionProbabilityDiscounts ==
    RuledTransformDone /\ transformation.service_name = "accounts-receivable" =>
       \A k \in 1..Len(transformation.result) :
          Scorable(Given(k), "payment_date") /\ "collection_probability" \notin DOMAIN Given(k) =>
             Get(Transformed(k), "collection_probability")
                = Milli(ClaimedCollectionProbability(Given(k)))

\* C20: each key of an input record that is no key of the service's mapping
\* table is in the transformed record under the same name with the same
\* value, whatever the key is named.
C20_UnmappedKeysCarriedUnchanged ==
    RuledTransformDone =>
       LET fm == field_mappings[transformation.service_name]
           mapped == {fm[j][1] : j \in 1..Len(fm)}
       IN  \A k \in 1..Len(transformation.result) :
              \A key \in DOMAIN Given(k) \ mapped :
                 key \in DOMAIN Transformed(k) /\ Transformed(k)[key] = Given(k)[key]

\* The three fields the transformer adds to a record.
SystemFields == {"_source_service", "_transformed_at", "_record_hash"}

\* C21: every record transform_microservice_data returns, whatever the
\* service name (with a rule set or without) and whatever the shape of the
\* payload, is an object that carries _source_service, _transformed_at and
\* _record_hash.
C21_EveryReturnedRecordCarriesSystemFields ==
    transformation.done =>
       \A k \in 1..Len(transformation.result) :
          /\ transformation.result[k].t = "dict"
          /\ SystemFields \subseteq DOMAIN transformation.result[k].f

\* C22: the _record_hash of a record is the same in every run (here: in the
\* call and in the same call made by a later process), and within one run two
\* records get the same hash exactly when they have the same keys and values.
C22_RecordHashIsDeterministic ==
    RuledTransformDone =>
       LET hash(q, k) == q[k].f["_record_hash"]
           n == Len(transformation.result)
       IN  /\ \A k1, k2 \in 1..n :
                 (Given(k1) = Given(k2))
                    <=> (hash(transformation.result, k1) = hash(transformation.result, k2))
           /\ transformation.redone =>
                 \A k \in 1..n : hash(transformation.result, k) = hash(transformation.again, k)
\* The jobs of a microservice source whose connection string names a service
\* the registry does not hold.
UnknownServiceJobs ==
    {j \in DOMAIN jobs : /\ SourceOf(j).type = "microservice"
                         /\ ConnOf(j).valid
                         /\ ConnOf(j).service_name \notin microservice_endpoints}

\* C23: a microservice job whose connection string names a service that is
\* not in the registry ends failed with error_message set, and no run of it
\* fetches an endpoint, writes a metric or updates the source's last_sync.
C23_UnknownServiceFailsBeforeAnyFetch ==
    \A j \in UnknownServiceJobs :
       /\ jobs[j].status \in Terminal =>
             /\ jobs[j].status = "failed"
             /\ jobs[j].error_message = Str("Unknown microservice")
       /\ lastRun[j].fetched = <<>> /\ lastRun[j].via # "complete"
       /\ \A t \in DOMAIN threads :
             threads[t].job_id = j =>
                /\ threads[t].pc \in {"start", "except", "done"}
                /\ threads[t].fetched = <<>> /\ threads[t].extracted_data = <<>>
       /\ \A m \in metrics : m.metric_name[1] # ConnOf(j).service_name
       /\ \A p \in stored : p[1] # ConnOf(j).service_name
       /\ last_sync[jobs[j].data_source_id] = Never

C23_Witness ==
    \E j \in UnknownServiceJobs :
       /\ jobs[j].status = "failed" /\ jobs[j].error_message = Str("Unknown microservice")
       /\ \E t \in DOMAIN threads : threads[t].job_id = j /\ threads[t].pc = "done"
\* The metric rows a stored payload yields when every commit succeeds.
Rows(svc, endpoint, name) ==
    UNION {o.metrics : o \in OutcomeTable[svc, endpoint, name, 1][{}]}
\* The payload of entry k of a run was stored, and rows of it are not in the
\* warehouse: the write of its metrics failed and was rolled back.
Skipped(svc, endpoints, fetched, k) ==
    /\ Accepted(svc, fetched[k])
    /\ ~(Rows(svc, endpoints[k], fetched[k]) \subseteq metrics)

StubJobs == {j \in DOMAIN jobs : SourceOf(j).type \in {"database", "api", "file"}}
\* No run of job j has fetched an endpoint or stored a payload.
NeverFetched(j) ==
    /\ lastRun[j].fetched = <<>>
    /\ \A t \in DOMAIN threads :
          threads[t].job_id = j =>
             /\ threads[t].pc # "loop"
             /\ threads[t].fetched = <<>> /\ threads[t].extracted_data = <<>>
\* The job row of a stub run that returned.
EndedAsStub(j) ==
    /\ jobs[j].status = "completed"
    /\ jobs[j].records_processed = 0 /\ jobs[j].records_failed = 0
    /\ jobs[j].job_metadata.status = "not_implemented"
    /\ jobs[j].job_metadata.type = SourceOf(j).type

\* C25 as stated: a job whose source type is database, api or file always
\* ends completed with records_processed = 0, records_failed = 0 and metadata
\* that say the extraction is not implemented, and never fetches an endpoint
\* or writes a metric.
C25_StubSourcesAlwaysComplete ==
    \A j \in StubJobs :
       /\ jobs[j].status \in Terminal => EndedAsStub(j)
       /\ NeverFetched(j)

\* C25 amended: that holds of the stub jobs whose connection string is valid
\* JSON; one whose connection string json.loads rejects ends failed with
\* error_message set; neither fetches an endpoint or writes a metric.
C25_StubSourcesCompleteWhenConnectionParses ==
    \A j \in StubJobs :
       /\ (jobs[j].status \in Terminal /\ ConnOf(j).valid) => EndedAsStub(j)
       /\ (jobs[j].status \in Terminal /\ ~ConnOf(j).valid) =>
             /\ jobs[j].status = "failed"
             /\ jobs[j].error_message = Str("Expecting value")
       /\ NeverFetched(j)

\* C25 witness: stub jobs of two kinds have ended, one completed as a stub,
\* the other, with a connection string that is no JSON, failed.
C25_Witness ==
    \E j1, j2 \in StubJobs :
       /\ ConnOf(j1).valid /\ EndedAsStub(j1)
       /\ ~ConnOf(j2).valid /\ jobs[j2].status = "failed"
\* C26: an endpoint is counted as failed at the fetch stage (connection_error
\* or http_error) exactly when the fetch raised a transport error or came
\* back with a status outside 200..299; a response with any 2xx status goes
\* on to validation.
C26_FetchFailsExactlyOutside2xx ==
    \A t \in DOMAIN threads :
       LET th == threads[t]
       IN  \A k \in 1..Len(th.fetched) :
              LET r == Response(th.fetched[k])
                  e == th.extracted_data[k]
              IN  /\ (e.status = "connection_error") <=> (r.kind = "RequestException")
                  /\ (e.status = "http_error")
                        <=> (r.kind = "http" /\ r.status_code \notin 200..299)
                  /\ (e.status \in {"validation_failed", "success"})
                        <=> (r.kind = "http" /\ r.status_code \in 200..299)
\* C27: nothing is retried.  A step of a run in the endpoint loop fetches the
\* endpoint the run is at, once, and leaves it for the next one (or for the
\* end of the loop) whatever the fetch produced; a run that has written its
\* job's outcome does nothing more and never starts again; and the row of a
\* terminal job changes only by a step of a run that a call of
\* execute_etl_job for that job started and that is not over, which marks it
\* running only at its start.
C27_NothingIsRetried ==
    [][(\A t \in DOMAIN threads :
           LET th == threads[t]
               after == threads'[t]
               eps == ConnOf(th.job_id).endpoints
           IN  /\ (th.pc = "loop" /\ after # th) =>
                     /\ Len(after.fetched) = th.i /\ Len(after.extracted_data) = th.i
                     /\ SubSeq(after.fetched, 1, th.i - 1) = th.fetched
                     /\ after.extracted_data[th.i].endpoint = eps[th.i]
                     /\ after.pc = "loop" => after.i = th.i + 1
                     /\ after.pc \in {"loop", "complete"}
               /\ th.pc = "done" => after = th
               /\ after.pc = "start" => after = th)
       /\ (\A j \in DOMAIN jobs :
              (jobs[j].status \in Terminal /\ jobs'[j] # jobs[j]) =>
                 \E t \in DOMAIN threads :
                    /\ threads[t].job_id = j /\ returned[t] = StartedHandle(j)
                    /\ threads[t].pc # "done" /\ threads'[t] # threads[t]
                    /\ jobs'[j].status = "running" <=> threads[t].pc = "start")
       /\ Len(threads') = Len(returned')]_vars

\* C27 witness: a job ended completed after every one of its endpoints failed
\* at its one fetch, and the run that did it is over.
C27_Witness ==
    \E j \in ServiceJobs :
       /\ jobs[j].status = "completed"
       /\ lastRun[j].fetched = <<"timeout", "http500", "fail20">>
       /\ threads[lastRun[j].by].pc = "done"
\* C28: a run writes only the row of its own job and the last_sync of that
\* job's source.  In every step, a job row that changes is the job of the
\* run that took the step, a last_sync that changes is that of the source of
\* that job, and no two runs move in one step.
C28_TaskWritesOnlyItsOwnJob ==
    [][LET Movers == {t \in DOMAIN threads : threads'[t] # threads[t]}
       IN  /\ Cardinality(Movers) <= 1
           /\ \A j \in DOMAIN jobs :
                 jobs'[j] # jobs[j] => \E t \in Movers : threads[t].job_id = j
           /\ \A s \in DOMAIN last_sync :
                 last_sync'[s] # last_sync[s] =>
                    \E t \in Movers : /\ threads[t].job_id \in DOMAIN jobs
                                      /\ jobs[threads[t].job_id].data_source_id = s]_vars

\* C28 witness: a run has written its job's outcome while the run of another
\* job was under way, and that other job is still as its own run left it.
C28_Witness ==
    \E t1, t2 \in DOMAIN threads :
       /\ threads[t1].job_id # threads[t2].job_id
       /\ threads[t1].job_id \in DOMAIN jobs /\ threads[t2].job_id \in DOMAIN jobs
       /\ threads[t1].pc = "done" /\ lastRun[threads[t1].job_id].by = t1
       /\ Active(t2) /\ Len(threads[t2].fetched) > 0
       /\ jobs[threads[t2].job_id].status = "running"
       /\ jobs[threads[t2].job_id].start_time = t2
       /\ jobs[threads[t1].job_id].end_time = t1
\* C29: every call of execute_etl_job for a job that exists leads to a state
\* where its run is over and the job is completed or failed, and no job stays
\* running for ever, when the runs are scheduled fairly.
C29_EveryRunEndsInATerminalStatus ==
    /\ \A t \in 1..MaxSubmits :
          (t \in DOMAIN threads /\ threads[t].job_id \in DOMAIN jobs)
             ~> (/\ t \in DOMAIN threads /\ threads[t].job_id \in DOMAIN jobs
                 /\ threads[t].pc = "done"
                 /\ jobs[threads[t].job_id].status \in Terminal)
    /\ \A j \in DOMAIN JobSource :
          (jobs[j].status = "running") ~> (jobs[j].status \in Terminal)

\* C29 witness: the two runs of two calls for the same job are over, the
\* second after the first, and the job is completed.
C29_Witness ==
    \E j \in ServiceJobs :
       /\ Len(threads) = 2
       /\ \A t \in DOMAIN threads : threads[t].job_id = j /\ threads[t].pc = "done"
       /\ jobs[j].status = "completed" /\ jobs[j].start_time = 1 /\ jobs[j].end_time = 2
\* The services whose metric table names the field amount.
LedgerServices == {"accounts-payable", "accounts-receivable"}

\* C30: when the payload of an accounts-payable or accounts-receivable
\* endpoint has passed validation and has been transformed and stored, the
\* rows written for it hold, for every record whose amount is a number, a
\* financial metric of the field amount with that amount as its value.
C30_AmountMetricForEveryLedgerRecord ==
    \A j \in ServiceJobs :
       ConnOf(j).service_name \in LedgerServices =>
          \A k \in 1..Len(lastRun[j].fetched) :
             LET svc == ConnOf(j).service_name
                 endpoint == ConnOf(j).endpoints[k]
                 name == lastRun[j].fetched[k]
                 records == RecordsOf(Response(name).data)
             IN  (Accepted(svc, name) /\ <<svc, name>> \in stored) =>
                    \A n \in 1..Len(records) :
                       ("amount" \in DOMAIN records[n].f /\ FloatOk(records[n].f["amount"])) =>
                          \E m \in Rows(svc, endpoint, name) :
                             /\ m.metric_name = <<svc, endpoint, "amount">>
                             /\ m.metric_category = "financial"
                             /\ m.metric_value = Num(records[n].f["amount"].n)
====
